---- MODULE Spec2Model ----
(***************************************************************************)
(* Model of datest: the output parser (datest/assertions.py), the test     *)
(* executor (datest/executor.py), the reporter and the command line         *)
(* (datest/reporter.py, datest/cli.py), test discovery                      *)
(* (datest/discovery.py), the configuration lookup (datest/config.py) and   *)
(* the result model (datest/models.py).                                     *)
(*                                                                          *)
(* Python str values are TLA+ strings, one character per code point.  The   *)
(* module text is ASCII, so the two emoji indicators are written with a     *)
(* stand-in character each: U+2705 is "^" and U+274C is "~".  Neither       *)
(* stand-in occurs anywhere else in the texts of the model.                 *)
(*                                                                          *)
(* Python values that come out of json.loads are tagged records, because a  *)
(* field taken from the JSON document (line, message, passed, source) can   *)
(* hold a value of any JSON type.                                           *)
(***************************************************************************)
EXTENDS Integers, Sequences, FiniteSets, TLC

(***************************************************************************)
(* Python values                                                           *)
(***************************************************************************)
PyInt(n) == [t |-> "int", v |-> n]
PyStr(s) == [t |-> "str", v |-> s]
PyBool(b) == [t |-> "bool", v |-> b]
PyNone == [t |-> "none"]
PyList(a) == [t |-> "list", v |-> a]
PyDict(o) == [t |-> "dict", v |-> o]

(***************************************************************************)
(* str primitives.  Positions are 1-based here; Python's 0-based results    *)
(* are produced at the places the code uses them.                           *)
(***************************************************************************)
CharAt(s, i) == SubSeq(s, i, i)

\* s[i-1:] of Python for a 1-based i
From(s, i) == SubSeq(s, i, Len(s))

\* s.startswith(sub, i-1)
StartsAt(s, sub, i) == /\ i >= 1
                       /\ i + Len(sub) - 1 <= Len(s)
                       /\ SubSeq(s, i, i + Len(sub) - 1) = sub

\* 1-based positions at which sub occurs in s
Occurrences(s, sub) == {i \in 1..Len(s) : StartsAt(s, sub, i)}

\* sub in s   (every sub used is non-empty)
Contains(s, sub) == \E i \in 1..Len(s) : StartsAt(s, sub, i)

SetMin(S) == CHOOSE m \in S : \A o \in S : m <= o
SetMax(S) == CHOOSE m \in S : \A o \in S : m >= o

\* s.find(sub) as a 1-based position, 0 when absent (Python: -1)
Find(s, sub) == IF Contains(s, sub) THEN SetMin(Occurrences(s, sub)) ELSE 0

\* s.rfind(sub) as a 1-based position, 0 when absent (Python: -1)
RFind(s, sub) == IF Contains(s, sub) THEN SetMax(Occurrences(s, sub)) ELSE 0

\* str.isspace / regex \s, on the characters of the model
IsSpace(c) == c \in {" ", "\t", "\n", "\r", "\f"}

IsDigit(c) == c \in {"0", "1", "2", "3", "4", "5", "6", "7", "8", "9"}

DigitVal(c) == CASE c = "0" -> 0 [] c = "1" -> 1 [] c = "2" -> 2 [] c = "3" -> 3
                 [] c = "4" -> 4 [] c = "5" -> 5 [] c = "6" -> 6 [] c = "7" -> 7
                 [] c = "8" -> 8 [] c = "9" -> 9

\* int(s) for a string of decimal digits
RECURSIVE ParseInt(_)
ParseInt(s) == IF Len(s) = 0 THEN 0
               ELSE 10 * ParseInt(SubSeq(s, 1, Len(s) - 1)) + DigitVal(CharAt(s, Len(s)))

\* length of the longest run of whitespace / digits / quotes that starts at i
RECURSIVE SpaceRun(_, _)
SpaceRun(s, i) == IF i <= Len(s) /\ IsSpace(CharAt(s, i)) THEN 1 + SpaceRun(s, i + 1) ELSE 0
RECURSIVE DigitRun(_, _)
DigitRun(s, i) == IF i <= Len(s) /\ IsDigit(CharAt(s, i)) THEN 1 + DigitRun(s, i + 1) ELSE 0

\* s.lstrip(), s.rstrip(), s.strip()
RECURSIVE RStrip(_)
RStrip(s) == IF Len(s) > 0 /\ IsSpace(CharAt(s, Len(s))) THEN RStrip(SubSeq(s, 1, Len(s) - 1)) ELSE s
LStrip(s) == From(s, SpaceRun(s, 1) + 1)
Strip(s) == RStrip(LStrip(s))

IsQuote(c) == c \in {"\"", "'"}
RECURSIVE QuoteRun(_, _)
QuoteRun(s, i) == IF i <= Len(s) /\ IsQuote(CharAt(s, i)) THEN 1 + QuoteRun(s, i + 1) ELSE 0
RECURSIVE RStripQuotes(_)
RStripQuotes(s) == IF Len(s) > 0 /\ IsQuote(CharAt(s, Len(s))) THEN RStripQuotes(SubSeq(s, 1, Len(s) - 1)) ELSE s
\* s.strip('"\'')
StripQuotes(s) == LET r == RStripQuotes(s) IN From(r, QuoteRun(r, 1) + 1)

\* s.split('\n')
RECURSIVE SplitLines(_)
SplitLines(s) == LET p == Find(s, "\n") IN
                 IF p = 0 THEN <<s>>
                 ELSE <<SubSeq(s, 1, p - 1)>> \o SplitLines(From(s, p + 1))

(***************************************************************************)
(* json.loads, as called at assertions.py:87.  A scan result is a record    *)
(* [ok, v, i]: ok is FALSE where the decoder raises JSONDecodeError, v is   *)
(* the decoded value and i the position after it.  The documents of the     *)
(* model use no \b and no \u escape.                                        *)
(***************************************************************************)
PyFloat(lit) == [t |-> "float", v |-> lit]
JsonFail == [ok |-> FALSE, v |-> PyNone, i |-> 0]
JsonOk(val, next) == [ok |-> TRUE, v |-> val, i |-> next]

\* json.decoder.WHITESPACE: [ \t\n\r]*
IsJsonSpace(c) == c \in {" ", "\t", "\n", "\r"}
RECURSIVE SkipJsonSpace(_, _)
SkipJsonSpace(s, i) == IF i <= Len(s) /\ IsJsonSpace(CharAt(s, i)) THEN SkipJsonSpace(s, i + 1) ELSE i

\* characters a strict JSON string may not hold unescaped
IsControl(c) == c \in {"\t", "\n", "\r", "\f"}

Unescape(c) == CASE c = "n" -> "\n" [] c = "t" -> "\t" [] c = "r" -> "\r"
                 [] c = "f" -> "\f" [] OTHER -> c

\* scanstring: i is the position after the opening quote, acc the text so far
RECURSIVE ScanString(_, _, _)
ScanString(s, i, acc) ==
    IF i > Len(s) THEN JsonFail
    ELSE LET c == CharAt(s, i) IN
         IF c = "\"" THEN JsonOk(PyStr(acc), i + 1)
         ELSE IF IsControl(c) THEN JsonFail
         ELSE IF c = "\\"
              THEN IF i + 1 <= Len(s) /\ CharAt(s, i + 1) \in {"\"", "\\", "/", "n", "t", "r", "f"}
                   THEN ScanString(s, i + 2, acc \o Unescape(CharAt(s, i + 1)))
                   ELSE JsonFail
         ELSE ScanString(s, i + 1, acc \o c)

\* NUMBER_RE: (-?(?:0|[1-9]\d*))(\.\d+)?([eE][-+]?\d+)?
ScanNumber(s, i) ==
    LET neg == StartsAt(s, "-", i)
        d == IF neg THEN i + 1 ELSE i
        intLen == IF StartsAt(s, "0", d) THEN 1 ELSE DigitRun(s, d)
        e1 == d + intLen
        fracLen == IF StartsAt(s, ".", e1) /\ DigitRun(s, e1 + 1) > 0
                   THEN 1 + DigitRun(s, e1 + 1) ELSE 0
        e2 == e1 + fracLen
        sgn == IF e2 + 1 <= Len(s) /\ CharAt(s, e2 + 1) \in {"-", "+"} THEN 1 ELSE 0
        expLen == IF e2 <= Len(s) /\ CharAt(s, e2) \in {"e", "E"} /\ DigitRun(s, e2 + 1 + sgn) > 0
                  THEN 1 + sgn + DigitRun(s, e2 + 1 + sgn) ELSE 0
        e3 == e2 + expLen
        mag == ParseInt(SubSeq(s, d, e1 - 1))
    IN  IF intLen = 0 THEN JsonFail
        ELSE IF fracLen = 0 /\ expLen = 0
             THEN JsonOk(PyInt(IF neg THEN 0 - mag ELSE mag), e1)
        ELSE JsonOk(PyFloat(SubSeq(s, i, e3 - 1)), e3)

\* dict item assignment: the last value of a repeated key wins
DictHas(o, key) == \E n \in 1..Len(o) : o[n].k = key
DictGet(o, key) == o[CHOOSE n \in 1..Len(o) : o[n].k = key].v
DictSet(o, key, val) ==
    IF DictHas(o, key)
    THEN [n \in 1..Len(o) |-> IF o[n].k = key THEN [k |-> key, v |-> val] ELSE o[n]]
    ELSE Append(o, [k |-> key, v |-> val])

RECURSIVE ScanOnce(_, _)
RECURSIVE ScanArrayItems(_, _, _)
RECURSIVE ScanObjectItems(_, _, _)

\* JSONArray: i is the position after '['
ScanArray(s, i) ==
    LET j == SkipJsonSpace(s, i) IN
    IF StartsAt(s, "]", j) THEN JsonOk(PyList(<<>>), j + 1)
    ELSE ScanArrayItems(s, j, <<>>)

\* the loop of JSONArray: i is the position of the next value
ScanArrayItems(s, i, acc) ==
    LET r == ScanOnce(s, i) IN
    IF ~r.ok THEN JsonFail
    ELSE LET j == SkipJsonSpace(s, r.i) IN
         IF StartsAt(s, "]", j) THEN JsonOk(PyList(Append(acc, r.v)), j + 1)
         ELSE IF StartsAt(s, ",", j)
              THEN ScanArrayItems(s, SkipJsonSpace(s, j + 1), Append(acc, r.v))
         ELSE JsonFail

\* JSONObject: i is the position after '{'
ScanObject(s, i) ==
    LET j == SkipJsonSpace(s, i) IN
    IF StartsAt(s, "}", j) THEN JsonOk(PyDict(<<>>), j + 1)
    ELSE ScanObjectItems(s, j, <<>>)

\* the loop of JSONObject: i is the position where a key's opening quote must be
ScanObjectItems(s, i, acc) ==
    IF ~StartsAt(s, "\"", i) THEN JsonFail
    ELSE LET key == ScanString(s, i + 1, "") IN
         IF ~key.ok THEN JsonFail
         ELSE LET c == SkipJsonSpace(s, key.i) IN
              IF ~StartsAt(s, ":", c) THEN JsonFail
              ELSE LET r == ScanOnce(s, SkipJsonSpace(s, c + 1)) IN
                   IF ~r.ok THEN JsonFail
                   ELSE LET j == SkipJsonSpace(s, r.i)
                            o == DictSet(acc, key.v.v, r.v)
                        IN  IF StartsAt(s, "}", j) THEN JsonOk(PyDict(o), j + 1)
                            ELSE IF StartsAt(s, ",", j)
                                 THEN ScanObjectItems(s, SkipJsonSpace(s, j + 1), o)
                            ELSE JsonFail

\* scan_once: one JSON value starting at i
ScanOnce(s, i) ==
    IF i > Len(s) THEN JsonFail
    ELSE LET c == CharAt(s, i) IN
         CASE c = "\"" -> ScanString(s, i + 1, "")
           [] c = "{" -> ScanObject(s, i + 1)
           [] c = "[" -> ScanArray(s, i + 1)
           [] StartsAt(s, "null", i) -> JsonOk(PyNone, i + 4)
           [] StartsAt(s, "true", i) -> JsonOk(PyBool(TRUE), i + 4)
           [] StartsAt(s, "false", i) -> JsonOk(PyBool(FALSE), i + 5)
           [] StartsAt(s, "NaN", i) -> JsonOk(PyFloat("NaN"), i + 3)
           [] StartsAt(s, "Infinity", i) -> JsonOk(PyFloat("Infinity"), i + 8)
           [] StartsAt(s, "-Infinity", i) -> JsonOk(PyFloat("-Infinity"), i + 9)
           [] OTHER -> ScanNumber(s, i)

\* json.loads(s): one value, surrounded by whitespace only
JsonLoads(s) ==
    LET r == ScanOnce(s, SkipJsonSpace(s, 1)) IN
    IF ~r.ok THEN JsonFail
    ELSE IF SkipJsonSpace(s, r.i) # Len(s) + 1 THEN JsonFail
    ELSE r

(***************************************************************************)
(* datest/models.py: DanaAssertion                                          *)
(***************************************************************************)
DanaAssertion(line_number, assertion_type, message, passed, source_line) ==
    [line_number |-> line_number, assertion_type |-> assertion_type,
     message |-> message, passed |-> passed, source_line |-> source_line]

(***************************************************************************)
(* datest/assertions.py: DanaAssertionParser                                *)
(***************************************************************************)
PASS_INDICATORS == <<"^", "passed", "success", "ok", "PASS">>
\* FAIL_INDICATORS with the "failed" token left out
FAIL_INDICATORS_NoFailed == <<"~", "failure", "error", "FAIL", "AssertionError">>
FAIL_INDICATORS == <<"~", "failed", "failure", "error", "FAIL", "AssertionError">>

\* any(indicator in text for indicator in indicators)
AnyIndicator(text, indicators) == \E n \in 1..Len(indicators) : Contains(text, indicators[n])

\* A regex match is [ok, has1, g1, g2, g3]: the text of each group; has1 is
\* FALSE (and g1 "") where group 1 did not take part.
NoMatch == [ok |-> FALSE, has1 |-> FALSE, g1 |-> "", g2 |-> "", g3 |-> ""]

\* backtracking: the first alternative when it matches, else the second
FirstMatch(first, second) == IF first.ok THEN first ELSE second

\* a match with its group 1 / group 2 filled in
WithGroup1(m, text) == IF m.ok THEN [m EXCEPT !.has1 = TRUE, !.g1 = text] ELSE NoMatch
WithGroup2(m, text) == IF m.ok THEN [m EXCEPT !.g2 = text] ELSE NoMatch

\* Line\s+(\d+) at p, given the length w of the run of spaces after "Line"
\* and the length d of the run of digits after them
LineNumberMatch(line, p, w, d) ==
    IF StartsAt(line, "Line", p) /\ w >= 1 /\ d >= 1
    THEN [ok |-> TRUE, has1 |-> TRUE, g1 |-> SubSeq(line, p + 4 + w, p + 4 + w + d - 1),
          g2 |-> "", g3 |-> ""]
    ELSE NoMatch
LineNumberAt(line, p) ==
    LineNumberMatch(line, p, SpaceRun(line, p + 4),
                    DigitRun(line, p + 4 + SpaceRun(line, p + 4)))

\* search: of the attempts at the start positions 1, 2, ... the leftmost
\* one that matched
Leftmost(attempts) ==
    IF \E p \in DOMAIN attempts : attempts[p].ok
    THEN attempts[SetMin({p \in DOMAIN attempts : attempts[p].ok})]
    ELSE NoMatch

\* re.search(r'Line\s+(\d+)', line)
LineSearch(line) == Leftmost([p \in 1..Len(line) |-> LineNumberAt(line, p)])

\* the optional prefix (?:Line\s+(\d+):\s*)? of ASSERT_PATTERN and
\* ERROR_PATTERN, tried at p: the position after it, 0 when it is absent.
\* m is the match of Line\s+(\d+) at p, c the position after its digits.
PrefixEnd(line, m, c) ==
    IF m.ok /\ StartsAt(line, ":", c) THEN c + 1 + SpaceRun(line, c + 1) ELSE 0
LinePrefixEnd(line, p) ==
    PrefixEnd(line, LineNumberAt(line, p),
              p + 4 + SpaceRun(line, p + 4) + Len(LineNumberAt(line, p).g1))

\* (?:failed|passed|==|!=) at p
ResultIndicatorAt(line, p) == \E r \in {"failed", "passed", "==", "!="} : StartsAt(line, r, p)

\* \s+(.+?)\s*(?:failed|passed|==|!=) tried at a, the position after the
\* keyword: \s+ is greedy (w spaces, longest first), .+? is lazy (k
\* characters, shortest first), \s* then takes the whole run of spaces.
AssertTailFits(line, a, w, k) ==
    /\ a + w + k - 1 <= Len(line)
    /\ ResultIndicatorAt(line, a + w + k + SpaceRun(line, a + w + k))

\* the match for w spaces, given the lengths ks that fit for group 3
AssertTailGroup(line, a, w, ks) ==
    IF ks = {} THEN NoMatch
    ELSE [ok |-> TRUE, has1 |-> FALSE, g1 |-> "", g2 |-> "",
          g3 |-> SubSeq(line, a + w, a + w + SetMin(ks) - 1)]

RECURSIVE AssertTailFrom(_, _, _)
\* the first match with w spaces or fewer
AssertTailFrom(line, a, w) ==
    IF w < 1 THEN NoMatch
    ELSE FirstMatch(AssertTailGroup(line, a, w,
                                    {k \in 1..Len(line) : AssertTailFits(line, a, w, k)}),
                    AssertTailFrom(line, a, w - 1))

AssertTail(line, a) == AssertTailFrom(line, a, SpaceRun(line, a))

\* (assert(?:ion)?) at q followed by the tail: "ion" is taken first
AssertKeyword(line, q) ==
    IF ~StartsAt(line, "assert", q) THEN NoMatch
    ELSE FirstMatch(IF StartsAt(line, "ion", q + 6)
                    THEN WithGroup2(AssertTail(line, q + 9), "assertion") ELSE NoMatch,
                    WithGroup2(AssertTail(line, q + 6), "assert"))

\* the keyword after a Line prefix that ends before e (0: there is no prefix)
AfterPrefix(line, e, keyword) == IF e = 0 THEN NoMatch ELSE keyword

\* ASSERT_PATTERN tried at start position p: with the Line prefix first
AssertPatternAt(line, p) ==
    FirstMatch(WithGroup1(AfterPrefix(line, LinePrefixEnd(line, p),
                                      AssertKeyword(line, LinePrefixEnd(line, p))),
                          LineNumberAt(line, p).g1),
               AssertKeyword(line, p))

\* ASSERT_PATTERN.search(line)
AssertPatternSearch(line) == Leftmost([p \in 1..Len(line) |-> AssertPatternAt(line, p)])

\* (Error|Exception):\s*(.+) at q, given the keyword ty found there ("" for
\* none), the position c after it and the run of spaces after the colon;
\* \s* gives a space back when nothing else is left for (.+)
ErrorTail(line, ty, c, run) ==
    IF ty # "" /\ StartsAt(line, ":", c) /\ c + 1 <= Len(line)
    THEN [ok |-> TRUE, has1 |-> FALSE, g1 |-> "", g2 |-> ty,
          g3 |-> From(line, IF c + 1 + run <= Len(line) THEN c + 1 + run ELSE c + run)]
    ELSE NoMatch
ErrorType(line, q) == IF StartsAt(line, "Error", q) THEN "Error"
                      ELSE IF StartsAt(line, "Exception", q) THEN "Exception" ELSE ""
ErrorKeyword(line, q) ==
    ErrorTail(line, ErrorType(line, q), q + Len(ErrorType(line, q)),
              SpaceRun(line, q + Len(ErrorType(line, q)) + 1))

\* ERROR_PATTERN tried at start position p: with the Line prefix first
ErrorPatternAt(line, p) ==
    FirstMatch(WithGroup1(AfterPrefix(line, LinePrefixEnd(line, p),
                                      ErrorKeyword(line, LinePrefixEnd(line, p))),
                          LineNumberAt(line, p).g1),
               ErrorKeyword(line, p))

\* ERROR_PATTERN.search(line)
ErrorPatternSearch(line) == Leftmost([p \in 1..Len(line) |-> ErrorPatternAt(line, p)])

\* What a parser method hands back: the list it returns, or the exception
\* that leaves it ("" when it returns normally).
Returned(list) == [raised |-> "", assertions |-> list]
Raised(exc) == [raised |-> exc, assertions |-> <<>>]

\* mapping.get(key, default); only a dict has the method
HasGet(val) == val.t = "dict"
Get(val, key, default) == IF DictHas(val.v, key) THEN DictGet(val.v, key) ELSE default

\* "for x in val": whether val is iterable, and the items it yields
Iterable(val) == val.t \in {"list", "dict", "str"}
Items(val) == CASE val.t = "list" -> val.v
                [] val.t = "dict" -> [n \in 1..Len(val.v) |-> PyStr(val.v[n].k)]
                [] val.t = "str" -> [n \in 1..Len(val.v) |-> PyStr(CharAt(val.v, n))]

\* the tests loop with passed defaulting to True
TestAssertion_DefaultPassed(test) ==
    DanaAssertion(Get(test, "line", PyInt(0)), "assert", Get(test, "message", PyStr("")),
                  Get(test, "passed", PyBool(TRUE)), Get(test, "source", PyStr("")))

\* the body of the loop over data["tests"] (assertions.py:94-100)
TestAssertion(test) ==
    DanaAssertion(Get(test, "line", PyInt(0)), "assert", Get(test, "message", PyStr("")),
                  Get(test, "passed", PyBool(FALSE)), Get(test, "source", PyStr("")))

\* the logs loop taking passed from the entry, as the tests loop does
LogAssertion_PassedFromEntry(log) ==
    DanaAssertion(Get(log, "line", PyInt(0)), "log", Get(log, "message", PyStr("")),
                  Get(log, "passed", PyBool(TRUE)), Get(log, "source", PyStr("")))

\* the body of the loop over data["logs"] (assertions.py:106-112)
LogAssertion(log) ==
    DanaAssertion(Get(log, "line", PyInt(0)), "log", Get(log, "message", PyStr("")),
                  PyBool(TRUE), Get(log, "source", PyStr("")))

\* the loop over the items of data[key].  AttributeError: an item has no
\* get method.
JsonLoop(items, isTest) ==
    IF \E n \in 1..Len(items) : ~HasGet(items[n]) THEN Raised("AttributeError")
    ELSE Returned([n \in 1..Len(items) |->
                     IF isTest THEN TestAssertion(items[n]) ELSE LogAssertion(items[n])])

\* "for entry in val: ...".  TypeError: val is not iterable.
JsonIterate(val, isTest) ==
    IF ~Iterable(val) THEN Raised("TypeError") ELSE JsonLoop(Items(val), isTest)

\* One "if key in data: for entry in data[key]: ..." block of
\* _parse_json_output.
JsonSection(data, key, isTest) ==
    IF ~DictHas(data.v, key) THEN Returned(<<>>)
    ELSE JsonIterate(DictGet(data.v, key), isTest)

\* What _parse_json_output hands back: isNone stands for the None it returns
\* when there is no '{' or the decoder raises JSONDecodeError.
JsonNone == [isNone |-> TRUE, raised |-> "", assertions |-> <<>>]
JsonRaised(exc) == [isNone |-> FALSE, raised |-> exc, assertions |-> <<>>]

\* the tests block, then the logs block; an exception in the first ends it
JsonBlocks(tests, logs) ==
    IF tests.raised # "" THEN JsonRaised(tests.raised)
    ELSE IF logs.raised # "" THEN JsonRaised(logs.raised)
    ELSE [isNone |-> FALSE, raised |-> "", assertions |-> tests.assertions \o logs.assertions]

\* the part of _parse_json_output after json.loads, without the except
\* clause: a decoding failure leaves the method as JSONDecodeError
JsonDecoded_NoExcept(data) ==
    IF ~data.ok THEN JsonRaised("JSONDecodeError")
    ELSE JsonBlocks(JsonSection(data.v, "tests", TRUE), JsonSection(data.v, "logs", FALSE))

\* the part of _parse_json_output after json.loads (assertions.py:87-119)
JsonDecoded(data) ==
    IF ~data.ok THEN JsonNone
    ELSE JsonBlocks(JsonSection(data.v, "tests", TRUE), JsonSection(data.v, "logs", FALSE))

\* _parse_json_output
parse_json_output(output) ==
    IF Find(output, "{") = 0 THEN JsonNone
    ELSE JsonDecoded(JsonLoads(From(output, Find(output, "{"))))

\* the return statements of _parse_assertion_line with "passed" alone
\* deciding the verdict
AssertionFor_PassWins(line, passed, failed, line_number, assert_match) ==
    IF ~(passed \/ failed) THEN <<>>
    ELSE IF assert_match.ok
         THEN <<DanaAssertion(PyInt(IF assert_match.has1 THEN ParseInt(assert_match.g1)
                                    ELSE line_number),
                              "assert", PyStr(Strip(assert_match.g3)),
                              PyBool(passed), PyNone)>>
    ELSE <<DanaAssertion(PyInt(line_number), "assert", PyStr(Strip(line)),
                         PyBool(passed), PyNone)>>

\* the return statements of _parse_assertion_line (assertions.py:151-174),
\* given the values of its local variables; <<>> stands for None, <<a>> for
\* the assertion a
AssertionFor(line, passed, failed, line_number, assert_match) ==
    IF ~(passed \/ failed) THEN <<>>
    ELSE IF assert_match.ok
         THEN <<DanaAssertion(PyInt(IF assert_match.has1 THEN ParseInt(assert_match.g1)
                                    ELSE line_number),
                              "assert", PyStr(Strip(assert_match.g3)),
                              PyBool(passed /\ ~failed), PyNone)>>
    ELSE <<DanaAssertion(PyInt(line_number), "assert", PyStr(Strip(line)),
                         PyBool(passed /\ ~failed), PyNone)>>

\* line_number of _parse_assertion_line (assertions.py:155-156)
LineNumberOr(line_match, default_line_num) ==
    IF line_match.ok THEN ParseInt(line_match.g1) ELSE default_line_num

\* _parse_assertion_line
parse_assertion_line(line, default_line_num) ==
    AssertionFor(line, AnyIndicator(line, PASS_INDICATORS), AnyIndicator(line, FAIL_INDICATORS),
                 LineNumberOr(LineSearch(line), default_line_num), AssertPatternSearch(line))

\* message of _parse_log_line (assertions.py:181-186), given start and end
\* as 1-based positions
LogMessage(line, start, end) ==
    IF Contains(line, "log(") /\ end > start
    THEN StripQuotes(Strip(SubSeq(line, start, end - 1)))
    ELSE line

\* _parse_log_line
parse_log_line(line, default_line_num) ==
    IF Contains(line, "log(") \/ Contains(line, "log ")
    THEN <<DanaAssertion(PyInt(default_line_num), "log",
                         PyStr(LogMessage(line, Find(line, "log(") + 4, RFind(line, ")"))),
                         PyBool(TRUE), PyNone)>>
    ELSE <<>>

\* the loop body without its first "continue": the log check is made as well
AssertionOrLog_Both(assertion, log) == assertion \o log

\* "if assertion: ... continue", else the log check (assertions.py:132-141)
AssertionOrLog(assertion, log) == IF assertion # <<>> THEN assertion ELSE log

\* the loop body handing enumerate's 0-based index on as the line number
TextLine_ZeroBased(raw, i) ==
    IF Strip(raw) = "" THEN <<>>
    ELSE AssertionOrLog(parse_assertion_line(Strip(raw), i - 1), parse_log_line(Strip(raw), i - 1))

\* the body of the loop of _parse_text_output for lines[i-1]
TextLine(raw, i) ==
    IF Strip(raw) = "" THEN <<>>
    ELSE AssertionOrLog(parse_assertion_line(Strip(raw), i), parse_log_line(Strip(raw), i))

RECURSIVE ConcatFrom(_, _)
\* f[i] \o f[i+1] \o ... for a sequence f of sequences
ConcatFrom(f, i) == IF i > Len(f) THEN <<>> ELSE f[i] \o ConcatFrom(f, i + 1)

\* the loop of _parse_text_output over lines
TextLoop(lines) == ConcatFrom([i \in 1..Len(lines) |-> TextLine(lines[i], i)], 1)

\* _parse_text_output looking at the first line only
parse_text_output_FirstLineOnly(output) == TextLoop(<<SplitLines(output)[1]>>)

\* _parse_text_output
parse_text_output(output) == TextLoop(SplitLines(output))

\* the assertion of one stripped, non-blank line of _parse_error_output
\* (assertions.py:208-227), given the match of ERROR_PATTERN
ErrorFor(line, error_match) ==
    IF error_match.ok
    THEN <<DanaAssertion(PyInt(IF error_match.has1 THEN ParseInt(error_match.g1) ELSE 0),
                         "error", PyStr(error_match.g2 \o ": " \o Strip(error_match.g3)),
                         PyBool(FALSE), PyNone)>>
    ELSE IF Contains(line, "Error") \/ Contains(line, "Exception")
         THEN <<DanaAssertion(PyInt(0), "error", PyStr(line), PyBool(FALSE), PyNone)>>
    ELSE <<>>

\* the body of the loop of _parse_error_output for one line
ErrorLine(raw) ==
    IF Strip(raw) = "" THEN <<>> ELSE ErrorFor(Strip(raw), ErrorPatternSearch(Strip(raw)))

\* the loop of _parse_error_output over lines
ErrorLoop(lines) == ConcatFrom([i \in 1..Len(lines) |-> ErrorLine(lines[i])], 1)

\* _parse_error_output
parse_error_output(error_output) == ErrorLoop(SplitLines(error_output))

\* _parse_generic_results looking for the fail indicators first
parse_generic_results_FailFirst(output) ==
    IF AnyIndicator(output, FAIL_INDICATORS)
    THEN <<DanaAssertion(PyInt(0), "result", PyStr("Test failed"), PyBool(FALSE), PyNone)>>
    ELSE IF AnyIndicator(output, PASS_INDICATORS)
         THEN <<DanaAssertion(PyInt(0), "result", PyStr("Test passed"), PyBool(TRUE), PyNone)>>
    ELSE <<>>

\* _parse_generic_results
parse_generic_results(output) ==
    IF AnyIndicator(output, PASS_INDICATORS)
    THEN <<DanaAssertion(PyInt(0), "result", PyStr("Test passed"), PyBool(TRUE), PyNone)>>
    ELSE IF AnyIndicator(output, FAIL_INDICATORS)
         THEN <<DanaAssertion(PyInt(0), "result", PyStr("Test failed"), PyBool(FALSE), PyNone)>>
    ELSE <<>>

\* "if not assertions: assertions.extend(self._parse_generic_results(output))"
OrGeneric(assertions, output) ==
    IF assertions = <<>> THEN parse_generic_results(output) ELSE assertions

\* the fallback with the error-text assertions put in front
TextAndErrors_ErrorsFirst(output, error_output) ==
    OrGeneric((IF error_output # "" THEN parse_error_output(error_output) ELSE <<>>)
                  \o parse_text_output(output),
              output)

\* what parse_output does when structured mode hands back None or []
\* (assertions.py:65-76)
TextAndErrors(output, error_output) ==
    OrGeneric(parse_text_output(output)
                  \o (IF error_output # "" THEN parse_error_output(error_output) ELSE <<>>),
              output)

\* the return of parse_output, given json_assertions, with error-text
\* parsing added to the structured result too
ParseResult_AppendsErrors(json_assertions, output, error_output) ==
    IF json_assertions.raised # "" THEN Raised(json_assertions.raised)
    ELSE IF json_assertions.assertions # <<>>
         THEN Returned(json_assertions.assertions \o parse_error_output(error_output))
    ELSE Returned(TextAndErrors(output, error_output))

\* the return of parse_output, given json_assertions (assertions.py:62-76)
ParseResult(json_assertions, output, error_output) ==
    IF json_assertions.raised # "" THEN Raised(json_assertions.raised)
    ELSE IF json_assertions.assertions # <<>> THEN Returned(json_assertions.assertions)
    ELSE Returned(TextAndErrors(output, error_output))

\* parse_output
parse_output(output, error_output) ==
    ParseResult(parse_json_output(output), output, error_output)

\* a float literal that denotes zero: no digit other than 0 in its mantissa
FloatIsZero(lit) ==
    \A i \in 1..Len(lit) :
        (\A j \in 1..i : CharAt(lit, j) \notin {"e", "E"}) => CharAt(lit, i) \notin
            {"1", "2", "3", "4", "5", "6", "7", "8", "9"}

\* bool(val): the truth value Python gives a value in "a.passed and ..."
Truthy(val) == CASE val.t = "bool" -> val.v
                 [] val.t = "int" -> val.v # 0
                 [] val.t = "float" -> ~FloatIsZero(val.v)
                 [] val.t = "str" -> val.v # ""
                 [] val.t = "list" -> val.v # <<>>
                 [] val.t = "dict" -> val.v # <<>>
                 [] OTHER -> FALSE

RECURSIVE CountAsserts(_, _)
\* sum(1 for a in assertions if <passed is truthy / falsy> and a.assertion_type == "assert")
CountAsserts(assertions, truth) ==
    IF assertions = <<>> THEN 0
    ELSE (IF Head(assertions).assertion_type = "assert" /\ Truthy(Head(assertions).passed) = truth
          THEN 1 ELSE 0) + CountAsserts(Tail(assertions), truth)

\* extract_test_summary counting every assertion, whatever its kind
extract_test_summary_AllKinds(assertions) ==
    <<Cardinality({n \in 1..Len(assertions) : Truthy(assertions[n].passed)}),
      Cardinality({n \in 1..Len(assertions) : ~Truthy(assertions[n].passed)})>>

\* extract_test_summary
extract_test_summary(assertions) ==
    <<CountAsserts(assertions, TRUE), CountAsserts(assertions, FALSE)>>

(***************************************************************************)
(* The texts the interpreter process can write.  A text is a sequence of    *)
(* at most MaxLines lines of the vocabulary joined by "\n"; a structured    *)
(* document is one "line", so that a text can hold plain lines before and   *)
(* after it, and a text holds at most one document.                         *)
(***************************************************************************)
MaxLines == 2

ScenarioText == "^ Test 1 passed\n~ Test 2 failed\nError: Assertion failed at line 15"

TextLines ==
    { "",
      "^ Test 1 passed",
      "~ Test 2 failed",
      "Error: Assertion failed at line 15",
      "Line 10: assert x == 5 passed",
      "Line 20: assertion y != 10 failed",
      "^ passed but ~ failed",
      "Line 5: see Line 7: assert x passed",
      "ok at Line 12",
      "Some initial text",
      "log(\"Starting tests\")",
      "log(\"'quoted'\")",
      "  log message " }

JsonLines ==
    { "{\"tests\": [{\"line\": 10, \"message\": \"x==5\", \"passed\": true}], \"logs\": [{\"line\": 5, \"message\": \"start\"}]}",
      "{\"tests\": [{}, {\"line\": 7}], \"logs\": [{\"passed\": false}]}",
      "{\"tests\": [{\"line\": -1, \"passed\": \"yes\", \"source\": \"assert x\"}]}",
      "{\"tests\": []}",
      "{\"tests\": 5}",
      "{\"tests\": [1]}",
      "{\"logs\": \"ab\"}",
      "{\"tests\": [{\"line\": 10" }

Vocabulary == TextLines \cup JsonLines

RECURSIVE Texts(_)
\* the texts of at least one and at most n lines
Texts(n) == IF n <= 1 THEN Vocabulary
            ELSE Texts(n - 1)
                    \cup {t \o "\n" \o l : t \in Texts(n - 1), l \in TextLines}
                    \cup {t \o "\n" \o l : t \in {u \in Texts(n - 1) : ~Contains(u, "{")},
                                            l \in JsonLines}

Outputs == Texts(MaxLines) \cup {ScenarioText}

ErrorTexts ==
    { "",
      "Error: Undefined variable 'x'",
      "Line 3: Exception: Division by zero at line 42\n\nnote",
      "Traceback: AssertionError raised" }

\* the assertions handed to extract_test_summary: every kind, with the
\* verdicts a parser result can carry (a structured entry's 'passed' is
\* whatever the document holds)
MaxAssertions == 2

GivenAssertions ==
    {DanaAssertion(PyInt(10), kind, PyStr("test"), passed, PyNone) :
        kind \in {"assert", "log", "error", "result"},
        passed \in {PyBool(TRUE), PyBool(FALSE), PyStr("yes"), PyNone}}

(***************************************************************************)
(* datest/executor.py                                                       *)
(***************************************************************************)
MaxFiles == 2

\* the files handed to run_multiple_files are a prefix of this list
AllFiles == <<"test1.na", "test2.na", "test3.na", "test4.na">>

\* DanaTestExecutor.__init__ with no config: timeout 30.0, command "dana"
timeout == "30.0"
dana_command == "dana"

\* what the interpreter can leave behind when it runs to completion
ExitCodes == {0, 1}
Stdouts == {"", "^ Test 1 passed", "^ Test 1 passed\n~ Test 2 failed"}
Stderrs == {"", "Error: Undefined variable 'x'"}
\* wall-clock time of one run, in whole units
Durations == {1, 2}

\* what _run_subprocess does: it returns a CompletedProcess or raises
Completed(returncode, stdout, stderr) ==
    [kind |-> "completed", returncode |-> returncode, stdout |-> stdout, stderr |-> stderr]
TimeoutExpired == [kind |-> "TimeoutExpired", returncode |-> 0, stdout |-> "", stderr |-> ""]
FileNotFoundError == [kind |-> "FileNotFoundError", returncode |-> 0, stdout |-> "", stderr |-> ""]
\* any other exception; stderr carries str(e)
OtherException == [kind |-> "Exception", returncode |-> 0, stdout |-> "", stderr |-> "Permission denied"]
SubprocessOutcomes ==
    {Completed(c, o, e) : c \in ExitCodes, o \in Stdouts, e \in Stderrs}
        \cup {TimeoutExpired, FileNotFoundError, OtherException}

\* the body of the loop of DanaTestResult._parse_assertions for lines[i-1]
ResultLine(line, i) ==
    IF Contains(line, "^") THEN <<[line |-> i, type |-> "pass", message |-> Strip(line)]>>
    ELSE IF Contains(line, "~") \/ Contains(line, "Error:")
         THEN <<[line |-> i, type |-> "fail", message |-> Strip(line)]>>
    ELSE <<>>

\* DanaTestResult._parse_assertions
parse_assertions(text) ==
    LET lines == SplitLines(text) IN
    ConcatFrom([i \in 1..Len(lines) |-> ResultLine(lines[i], i)], 1)

\* DanaTestResult.__init__ of executor.py
DanaTestResult(file_path, success, duration, out, errors, exit_code) ==
    [file_path |-> file_path, success |-> success, duration |-> duration, output |-> out,
     errors |-> errors, exit_code |-> exit_code, assertions |-> parse_assertions(out)]

\* run_dana_file reporting a timeout as an ordinary failure with exit code 1
run_dana_file_TimeoutExitsOne(file_path, outcome, duration) ==
    CASE outcome.kind = "completed" ->
            DanaTestResult(file_path, outcome.returncode = 0, duration,
                           outcome.stdout, outcome.stderr, outcome.returncode)
      [] outcome.kind = "TimeoutExpired" ->
            DanaTestResult(file_path, FALSE, duration, "",
                           "Execution timed out after " \o timeout \o "s", 1)
      [] outcome.kind = "FileNotFoundError" ->
            DanaTestResult(file_path, FALSE, duration, "",
                           "Dana command not found: " \o dana_command, 127)
      [] OTHER ->
            DanaTestResult(file_path, FALSE, duration, "",
                           "Execution error: " \o outcome.stderr, 1)

\* run_dana_file, given what _run_subprocess did and the time it took
run_dana_file(file_path, outcome, duration) ==
    CASE outcome.kind = "completed" ->
            DanaTestResult(file_path, outcome.returncode = 0, duration,
                           outcome.stdout, outcome.stderr, outcome.returncode)
      [] outcome.kind = "TimeoutExpired" ->
            DanaTestResult(file_path, FALSE, duration, "",
                           "Execution timed out after " \o timeout \o "s", 124)
      [] outcome.kind = "FileNotFoundError" ->
            DanaTestResult(file_path, FALSE, duration, "",
                           "Dana command not found: " \o dana_command, 127)
      [] OTHER ->
            DanaTestResult(file_path, FALSE, duration, "",
                           "Execution error: " \o outcome.stderr, 1)

(***************************************************************************)
(* datest/reporter.py                                                       *)
(***************************************************************************)
RECURSIVE SumDurations(_)
\* sum(r.duration for r in results)
SumDurations(rs) == IF rs = <<>> THEN 0 ELSE Head(rs).duration + SumDurations(Tail(rs))

RECURSIVE CountSuccess(_)
\* sum(1 for r in results if r.success)
CountSuccess(rs) == IF rs = <<>> THEN 0
                    ELSE (IF Head(rs).success THEN 1 ELSE 0) + CountSuccess(Tail(rs))

\* the rows of the summary table and the line under it, given the locals
\* total, passed, failed and total_duration of _print_summary
SummaryOf(total, passed, failed, total_duration) ==
    [total |-> total, passed |-> passed, failed |-> failed, total_duration |-> total_duration,
     rows |-> <<<<"Total files", total>>>>
                 \o (IF passed > 0 THEN <<<<"Passed", passed>>>> ELSE <<>>)
                 \o (IF failed > 0 THEN <<<<"Failed", failed>>>> ELSE <<>>)
                 \o <<<<"Duration", total_duration>>>>,
     overall |-> IF failed = 0 THEN "All tests passed!"
                 ELSE ToString(failed) \o " test file(s) failed"]

\* _print_summary taking the duration of the last result for the total
print_summary_LastDuration(rs) ==
    SummaryOf(Len(rs), CountSuccess(rs), Len(rs) - CountSuccess(rs), rs[Len(rs)].duration)

\* _print_summary
print_summary(rs) ==
    SummaryOf(Len(rs), CountSuccess(rs), Len(rs) - CountSuccess(rs), SumDurations(rs))

\* generate_report: <<>> when there is nothing to report, else the summary
generate_report(rs) == IF rs = <<>> THEN <<>> ELSE <<print_summary(rs)>>

(***************************************************************************)
(* datest/cli.py: the exit codes of main                                    *)
(***************************************************************************)
ExitNoTestFiles == 1
ExitDiscoveryComplete == 0
ExitDanaUnavailable == 2
ExitTestFailures == 1
ExitSuccess == 0
ExitInterrupted == 130
ExitInternalError == 2

\* failed_count of main
failed_count(rs) == Len(rs) - CountSuccess(rs)

(***************************************************************************)
(* datest/discovery.py.  A path is the tuple of its parts, as pathlib      *)
(* keeps it: <<"tests", "test_a.na">> is tests/test_a.na and a leading "/"  *)
(* makes it absolute.  The file system is a fixed tree below the working   *)
(* directory Cwd; the names of the tree use the characters of Alphabet,    *)
(* which lists them in code-point order.                                    *)
(***************************************************************************)
Cwd == <<"/", "work">>
Tests == Cwd \o <<"tests">>

\* Path.iterdir(), in the order the operating system lists the entries
iterdir(directory) ==
    CASE directory = Cwd -> <<"tests">>
      [] directory = Tests ->
            <<"test_a.na", "sub", ".git", "helper.na", "test_z.txt", "__pycache__", "a_test.na">>
      [] directory = Tests \o <<".git">> -> <<"test_hook.na">>
      [] directory = Tests \o <<"__pycache__">> -> <<"test_cached.na">>
      [] directory = Tests \o <<"sub">> -> <<"test_b.na", "deep", ".b_test.na", "locked">>
      [] directory = Tests \o <<"sub", "deep">> -> <<"test_c.na", "deeper", "test_dir.na">>
      [] directory = Tests \o <<"sub", "deep", "deeper">> -> <<"test_d.na">>
      [] directory = Tests \o <<"sub", "deep", "test_dir.na">> -> <<>>
      [] directory = Tests \o <<"sub", "locked">> -> <<"test_e.na">>
      [] OTHER -> <<>>

DirectoryPaths ==
    {Cwd, Tests, Tests \o <<".git">>, Tests \o <<"__pycache__">>, Tests \o <<"sub">>,
     Tests \o <<"sub", "deep">>, Tests \o <<"sub", "deep", "deeper">>,
     Tests \o <<"sub", "deep", "test_dir.na">>, Tests \o <<"sub", "locked">>}

\* the directories whose iterdir() raises PermissionError
Unreadable == {Tests \o <<"sub", "locked">>}

\* Path.resolve(): the absolute path of the file a path names
resolve(path) == IF path # <<>> /\ path[1] = "/" THEN path ELSE Cwd \o path

Parent(path) == SubSeq(path, 1, Len(path) - 1)
Name(path) == path[Len(path)]

is_dir(path) == resolve(path) \in DirectoryPaths
is_file(path) ==
    LET r == resolve(path) IN
    /\ r \notin DirectoryPaths
    /\ Parent(r) \in DirectoryPaths
    /\ \E n \in 1..Len(iterdir(Parent(r))) : iterdir(Parent(r))[n] = Name(r)

\* PurePath.suffix of a file name
Suffix(name) == LET p == RFind(name, ".") IN
                IF p > 1 /\ p < Len(name) THEN From(name, p) ELSE ""

\* str.split("*")
RECURSIVE SplitStar(_)
SplitStar(s) == LET p == Find(s, "*") IN
                IF p = 0 THEN <<s>>
                ELSE <<SubSeq(s, 1, p - 1)>> \o SplitStar(From(s, p + 1))

StartsWith(s, prefix) == StartsAt(s, prefix, 1)
EndsWith(s, suffix) == StartsAt(s, suffix, Len(s) - Len(suffix) + 1)

matches_glob_pattern(name, glob) ==
    IF ~Contains(glob, "*") THEN name = glob
    ELSE LET parts == SplitStar(glob) IN
         IF Len(parts) = 2
         THEN CASE parts[1] # "" /\ parts[2] # "" ->
                      StartsWith(name, parts[1]) /\ EndsWith(name, parts[2])
                [] parts[1] # "" -> StartsWith(name, parts[1])
                [] parts[2] # "" -> EndsWith(name, parts[2])
                [] OTHER -> TRUE
         ELSE \A n \in 1..Len(parts) : parts[n] = "" \/ Contains(name, parts[n])

is_test_file(path, patterns) ==
    /\ Suffix(Name(path)) = ".na"
    /\ \E n \in 1..Len(patterns) : matches_glob_pattern(Name(path), patterns[n])

is_excluded(path, exclude_patterns) ==
    \E n \in 1..Len(exclude_patterns) :
       LET exclude_pattern == exclude_patterns[n] IN
       IF StartsWith(exclude_pattern, ".") /\ StartsWith(Name(path), ".") THEN TRUE
       ELSE IF Contains(exclude_pattern, "*")
            THEN matches_glob_pattern(Name(path), exclude_pattern)
            ELSE Contains(Name(path), exclude_pattern)

\* a DiscoveryConfig with the default patterns
DiscoveryConfig(max_depth, recursive) ==
    [patterns |-> <<"test_*.na", "*_test.na">>,
     recursive |-> recursive,
     max_depth |-> max_depth,
     exclude_patterns |-> <<".*", "__pycache__", "*.egg-info">>]

\* _walk_directory without its depth guard
Enter_NoDepthGuard(directory, depth, max_depth) ==
    <<[directory |-> directory, depth |-> depth, item |-> 1]>>

\* the frames a call _walk_directory(directory, depth) adds to the stack:
\* none when the depth guard returns at once
Enter(directory, depth, max_depth) ==
    IF depth > max_depth THEN <<>>
    ELSE <<[directory |-> directory, depth |-> depth, item |-> 1]>>

\* the entries the loop of a frame goes through
Listing(directory) == IF resolve(directory) \in Unreadable THEN <<>>
                      ELSE iterdir(resolve(directory))

\* _remove_duplicates keeping the last path of each file
RECURSIVE remove_duplicates_KeepsLast(_)
remove_duplicates_KeepsLast(files) ==
    IF files = <<>> THEN <<>>
    ELSE LET rest == SubSeq(files, 2, Len(files)) IN
         IF \E n \in 1..Len(rest) : resolve(rest[n]) = resolve(files[1])
         THEN remove_duplicates_KeepsLast(rest)
         ELSE <<files[1]>> \o remove_duplicates_KeepsLast(rest)

RECURSIVE remove_duplicates(_)
remove_duplicates(files) ==
    IF files = <<>> THEN <<>>
    ELSE LET front == SubSeq(files, 1, Len(files) - 1)
             file_path == files[Len(files)] IN
         IF \E n \in 1..Len(front) : resolve(front[n]) = resolve(file_path)
         THEN remove_duplicates(front)
         ELSE Append(remove_duplicates(front), file_path)

\* the order of str: by code point, a proper prefix first
Alphabet == "./0123456789_abcdefghijklmnopqrstuvwxyz"
Ord(c) == Find(Alphabet, c)
StrLess(a, b) ==
    \E i \in 1..Len(b) :
       /\ i <= Len(a) + 1
       /\ SubSeq(a, 1, i - 1) = SubSeq(b, 1, i - 1)
       /\ i = Len(a) + 1 \/ Ord(CharAt(a, i)) < Ord(CharAt(b, i))

\* PurePath.__lt__: the order of the tuples of parts
PathLess(a, b) ==
    \E i \in 1..Len(b) :
       /\ i <= Len(a) + 1
       /\ SubSeq(a, 1, i - 1) = SubSeq(b, 1, i - 1)
       /\ i = Len(a) + 1 \/ StrLess(a[i], b[i])

\* list.sort() of a list of paths
SortPaths(files) == SortSeq(files, PathLess)

(***************************************************************************)
(* State.  The parser harness calls parse_output(output, error_output)      *)
(* once; ret is what came back.  run_multiple_files(file_paths) appends to  *)
(* results, one file per step; runs records what each subprocess did, and   *)
(* epc is "loop" until the method has returned.  given is the list handed   *)
(* to extract_test_summary and summary what it gave, <<>> before the call.  *)
(* mpc is the position of main in its try block ("idle" when main is not    *)
(* running), exit_status holds the argument of sys.exit once main has       *)
(* exited, cli_outcome names the branch that exited, and report holds what  *)
(* generate_report printed; discover_only is the --discover-only option    *)
(* and dana_available what is_dana_available returned, <<>> before the     *)
(* call.                                                                    *)
(*                                                                          *)
(* discover(paths) of a DanaTestDiscovery with configuration config walks   *)
(* the paths one by one: path_index is the next one, stack the frames of    *)
(* _walk_directory that are active (the innermost last), discovered_files   *)
(* the list collected so far, unique_files the list returned and dpc the    *)
(* position ("idle", "paths", "returned").                                  *)
(*                                                                          *)
(* filename, pattern and matched are a call of _matches_glob_pattern and    *)
(* its result; directories, current and loaded are a call of                *)
(* DatestConfig.find_and_load; assertions and views are a DanaTestResult    *)
(* and a read of its two derived lists; calls is the history of the calls   *)
(* of parse_output made on the parser instances of a process.               *)
(***************************************************************************)
VARIABLES output, error_output, pc, ret, given, summary, file_paths, results, runs, epc,
          mpc, exit_status, cli_outcome, report, discover_only, dana_available,
          paths, config, path_index, stack, discovered_files, unique_files, dpc,
          filename, pattern, matched, directories, current, loaded,
          assertions, views, calls

vars == <<output, error_output, pc, ret, given, summary, file_paths, results, runs, epc,
          mpc, exit_status, cli_outcome, report, discover_only, dana_available,
          paths, config, path_index, stack, discovered_files, unique_files, dpc,
          filename, pattern, matched, directories, current, loaded,
          assertions, views, calls>>
cliVars == <<mpc, exit_status, cli_outcome, report, discover_only, dana_available>>
discoveryVars == <<paths, config, path_index, stack, discovered_files, unique_files, dpc>>
globVars == <<filename, pattern, matched>>
configVars == <<directories, current, loaded>>
resultVars == <<assertions, views>>
libraryVars == <<discoveryVars, globVars, configVars, resultVars, calls>>
parserVars == <<output, error_output, pc, ret>>
summaryVars == <<given, summary>>
executorVars == <<file_paths, results, runs, epc>>

ParserIdle == /\ output = ""
              /\ error_output = ""
              /\ pc = "call"
              /\ ret = Returned(<<>>)

SummaryIdle == /\ given = <<>>
               /\ summary = <<>>

CliIdle == /\ mpc = "idle"
           /\ exit_status = <<>>
           /\ cli_outcome = ""
           /\ report = <<>>
           /\ discover_only = FALSE
           /\ dana_available = <<>>

DiscoveryIdle == /\ paths = <<>>
                 /\ config = DiscoveryConfig(0, TRUE)
                 /\ path_index = 1
                 /\ stack = <<>>
                 /\ discovered_files = <<>>
                 /\ unique_files = <<>>
                 /\ dpc = "idle"

GlobIdle == /\ filename = ""
            /\ pattern = ""
            /\ matched = <<>>

ConfigIdle == /\ directories = <<>>
              /\ current = 0
              /\ loaded = <<>>

ResultIdle == /\ assertions = <<>>
              /\ views = <<>>

LibraryIdle == /\ DiscoveryIdle
               /\ GlobIdle
               /\ ConfigIdle
               /\ ResultIdle
               /\ calls = <<>>

ExecutorIdle == /\ file_paths = <<>>
                /\ results = <<>>
                /\ runs = <<>>
                /\ epc = "loop"

Init == /\ output \in Outputs
        /\ error_output \in ErrorTexts
        /\ pc = "call"
        /\ ret = Returned(<<>>)
        /\ SummaryIdle
        /\ ExecutorIdle
        /\ CliIdle
        /\ LibraryIdle

\* a call of DanaAssertionParser.parse_output
ParseOutput ==
    /\ pc = "call"
    /\ ret' = parse_output(output, error_output)
    /\ pc' = IF ret'.raised = "" THEN "returned" ELSE "raised"
    /\ UNCHANGED <<output, error_output>>
    /\ UNCHANGED <<summaryVars, executorVars, cliVars, libraryVars>>

Next == ParseOutput

Spec == Init /\ [][Next]_vars

\* the lists of at most n of the given assertions
RECURSIVE AssertionLists(_)
AssertionLists(n) ==
    IF n = 0 THEN {<<>>}
    ELSE AssertionLists(n - 1)
            \cup {Append(l, a) : l \in AssertionLists(n - 1), a \in GivenAssertions}

SummaryInit == /\ ParserIdle
               /\ ExecutorIdle
               /\ CliIdle
               /\ LibraryIdle
               /\ given \in AssertionLists(MaxAssertions)
               /\ summary = <<>>

\* a call of extract_test_summary(given)
ExtractSummary ==
    /\ summary = <<>>
    /\ summary' = extract_test_summary(given)
    /\ UNCHANGED given
    /\ UNCHANGED <<parserVars, executorVars, cliVars, libraryVars>>

SummaryNext == ExtractSummary

SummarySpec == SummaryInit /\ [][SummaryNext]_vars

ExecInit == /\ ParserIdle
            /\ SummaryIdle
            /\ CliIdle
            /\ LibraryIdle
            /\ \E n \in 0..MaxFiles : file_paths = SubSeq(AllFiles, 1, n)
            /\ results = <<>>
            /\ runs = <<>>
            /\ epc = "loop"

\* one iteration of the loop of run_multiple_files
RunNextFile ==
    /\ epc = "loop"
    /\ Len(results) < Len(file_paths)
    /\ \E outcome \in SubprocessOutcomes, duration \in Durations :
          /\ results' = Append(results, run_dana_file(file_paths[Len(results) + 1], outcome, duration))
          /\ runs' = Append(runs, outcome)
    /\ UNCHANGED <<file_paths, epc>>
    /\ UNCHANGED <<parserVars, summaryVars, cliVars, libraryVars>>

\* the loop of run_multiple_files is over: return results
ReturnResults ==
    /\ epc = "loop"
    /\ Len(results) = Len(file_paths)
    /\ epc' = "returned"
    /\ UNCHANGED <<file_paths, results, runs>>
    /\ UNCHANGED <<parserVars, summaryVars, cliVars, libraryVars>>

ExecNext == RunNextFile \/ ReturnResults

ExecSpec == ExecInit /\ [][ExecNext]_vars

\* run_multiple_files is a sequential loop over calls that each return: a
\* call that has started is carried on until it has returned
ExecFairSpec == ExecSpec /\ WF_vars(ExecNext)

\* main leaves through sys.exit(code) in the named branch
Exit(code, outcome) == /\ mpc' = "exited"
                       /\ exit_status' = <<code>>
                       /\ cli_outcome' = outcome

CliInit == /\ ParserIdle
           /\ SummaryIdle
           /\ ExecutorIdle
           /\ LibraryIdle
           /\ mpc = "discover"
           /\ exit_status = <<>>
           /\ cli_outcome = ""
           /\ report = <<>>
           /\ discover_only \in BOOLEAN
           /\ dana_available = <<>>

\* discovery.discover(paths) returns, and what main does up to the
\* creation of the executor (cli.py:109-131)
Discover ==
    /\ mpc = "discover"
    /\ \E n \in 0..MaxFiles :
          /\ file_paths' = SubSeq(AllFiles, 1, n)
          /\ IF n = 0 THEN Exit(ExitNoTestFiles, "no test files found")
             ELSE IF discover_only THEN Exit(ExitDiscoveryComplete, "discovery complete")
             ELSE /\ mpc' = "available"
                  /\ UNCHANGED <<exit_status, cli_outcome>>
    /\ UNCHANGED <<results, runs, epc, report, discover_only, dana_available>>
    /\ UNCHANGED <<parserVars, summaryVars, libraryVars>>

\* the availability check as a warning only: the tests are run all the same
CheckDana_WarnsOnly ==
    /\ mpc = "available"
    /\ \E available \in BOOLEAN :
          /\ dana_available' = <<available>>
          /\ mpc' = "run"
          /\ UNCHANGED <<exit_status, cli_outcome>>
    /\ UNCHANGED <<report, discover_only>>
    /\ UNCHANGED <<parserVars, summaryVars, executorVars, libraryVars>>

\* executor.is_dana_available() returns (cli.py:134-142)
CheckDana ==
    /\ mpc = "available"
    /\ \E available \in BOOLEAN :
          /\ dana_available' = <<available>>
          /\ IF available THEN /\ mpc' = "run"
                               /\ UNCHANGED <<exit_status, cli_outcome>>
             ELSE Exit(ExitDanaUnavailable, "interpreter unavailable")
    /\ UNCHANGED <<report, discover_only>>
    /\ UNCHANGED <<parserVars, summaryVars, executorVars, libraryVars>>

\* an iteration of the loop of run_multiple_files called by main
CliRunNextFile == mpc = "run" /\ RunNextFile

\* run_multiple_files returns to main
CliReturnResults == mpc = "run" /\ ReturnResults

\* the report followed by an exit with the number of failed files as code
Report_ExitsWithFailedCount ==
    /\ mpc = "run"
    /\ epc = "returned"
    /\ report' = generate_report(results)
    /\ IF failed_count(results) > 0 THEN Exit(failed_count(results) + 2, "test files failed")
       ELSE Exit(ExitSuccess, "all passed")
    /\ UNCHANGED <<discover_only, dana_available>>
    /\ UNCHANGED <<parserVars, summaryVars, executorVars, libraryVars>>

\* reporter.generate_report(results) and the exit that follows it
\* (cli.py:148-155)
Report ==
    /\ mpc = "run"
    /\ epc = "returned"
    /\ report' = generate_report(results)
    /\ IF failed_count(results) > 0 THEN Exit(ExitTestFailures, "test files failed")
       ELSE Exit(ExitSuccess, "all passed")
    /\ UNCHANGED <<discover_only, dana_available>>
    /\ UNCHANGED <<parserVars, summaryVars, executorVars, libraryVars>>

\* a KeyboardInterrupt treated as an unexpected error
KeyboardInterrupt_AsError ==
    /\ mpc \in {"discover", "available", "run"}
    /\ Exit(ExitInternalError, "interrupted")
    /\ UNCHANGED report
    /\ UNCHANGED <<discover_only, dana_available>>
    /\ UNCHANGED <<parserVars, summaryVars, executorVars, libraryVars>>

\* a KeyboardInterrupt is raised inside the try block of main, in
\* discovery, in the availability check, in a subprocess run or in the
\* report: nothing below main catches it (cli.py:157-159)
KeyboardInterrupt ==
    /\ mpc \in {"discover", "available", "run"}
    /\ Exit(ExitInterrupted, "interrupted")
    /\ UNCHANGED report
    /\ UNCHANGED <<discover_only, dana_available>>
    /\ UNCHANGED <<parserVars, summaryVars, executorVars, libraryVars>>

\* an Exception is raised inside the try block of main, by discovery, by
\* the availability check or by the reporter; run_multiple_files catches
\* its own (cli.py:160-164)
InternalError ==
    /\ \/ mpc \in {"discover", "available"}
       \/ mpc = "run" /\ epc = "returned"
    /\ Exit(ExitInternalError, "internal error")
    /\ UNCHANGED report
    /\ UNCHANGED <<discover_only, dana_available>>
    /\ UNCHANGED <<parserVars, summaryVars, executorVars, libraryVars>>

CliNext == \/ Discover
           \/ CheckDana
           \/ CliRunNextFile
           \/ CliReturnResults
           \/ Report
           \/ KeyboardInterrupt
           \/ InternalError

CliSpec == CliInit /\ [][CliNext]_vars

coreVars == <<parserVars, summaryVars, executorVars, cliVars>>

CoreIdle == /\ ParserIdle
            /\ SummaryIdle
            /\ ExecutorIdle
            /\ CliIdle

(***************************************************************************)
(* discover(paths), one step per path and per entry of a directory          *)
(***************************************************************************)
MaxPaths == 2
MaxDepth == 2

\* a directory, the same directory by its absolute path, a test file of it,
\* a directory below it, a path that does not exist and a file that is no
\* test file
RootPaths == {<<"tests">>, Tests, <<"tests", "test_a.na">>, <<"tests", "sub">>,
              <<"missing">>, <<"tests", "helper.na">>}

RECURSIVE PathLists(_)
PathLists(n) ==
    IF n = 0 THEN {<<>>}
    ELSE PathLists(n - 1) \cup {Append(l, p) : l \in PathLists(n - 1), p \in RootPaths}

DiscoveryInit == CoreIdle /\ LibraryIdle

\* discover(paths) is called on a DanaTestDiscovery of some configuration
\* (discovery.py:27-41)
CallDiscover ==
    /\ dpc = "idle"
    /\ paths' \in PathLists(MaxPaths)
    /\ \E max_depth \in 0..MaxDepth, recursive \in BOOLEAN :
          config' = DiscoveryConfig(max_depth, recursive)
    /\ dpc' = "paths"
    /\ UNCHANGED <<path_index, stack, discovered_files, unique_files>>
    /\ UNCHANGED <<coreVars, globVars, configVars, resultVars, calls>>

\* one iteration of the loop over paths (discovery.py:43-58), up to the
\* call of _walk_directory for a directory
NextPath ==
    /\ dpc = "paths"
    /\ stack = <<>>
    /\ path_index <= Len(paths)
    /\ LET path == paths[path_index] IN
       IF is_file(path)
       THEN /\ discovered_files' = IF is_test_file(path, config.patterns)
                                   THEN Append(discovered_files, path)
                                   ELSE discovered_files
            /\ stack' = <<>>
       ELSE IF is_dir(path)
            THEN /\ stack' = Enter(path, 0, config.max_depth)
                 /\ UNCHANGED discovered_files
            ELSE UNCHANGED <<stack, discovered_files>>
    /\ path_index' = path_index + 1
    /\ UNCHANGED <<paths, config, unique_files, dpc>>
    /\ UNCHANGED <<coreVars, globVars, configVars, resultVars, calls>>

\* what the loop body of _walk_directory does with an entry of the
\* directory of a frame: the file it appends to found_files and the frame
\* of the call it makes (discovery.py:79-86)
WalkedItem(item, depth, cfg) ==
    IF is_excluded(item, cfg.exclude_patterns)
    THEN [found |-> <<>>, entered |-> <<>>]
    ELSE IF is_file(item) /\ is_test_file(item, cfg.patterns)
         THEN [found |-> <<item>>, entered |-> <<>>]
         ELSE IF is_dir(item) /\ cfg.recursive
              THEN [found |-> <<>>, entered |-> Enter(item, depth + 1, cfg.max_depth)]
              ELSE [found |-> <<>>, entered |-> <<>>]

\* the entry a frame is at
ItemOf(frame) == frame.directory \o <<Listing(frame.directory)[frame.item]>>

\* one iteration of the loop of the innermost _walk_directory
\* (discovery.py:78-86)
WalkItem ==
    /\ stack # <<>>
    /\ stack[Len(stack)].item <= Len(Listing(stack[Len(stack)].directory))
    /\ LET step == WalkedItem(ItemOf(stack[Len(stack)]), stack[Len(stack)].depth, config) IN
       /\ stack' = [stack EXCEPT ![Len(stack)].item = @ + 1] \o step.entered
       /\ discovered_files' = discovered_files \o step.found
    /\ UNCHANGED <<paths, config, path_index, unique_files, dpc>>
    /\ UNCHANGED <<coreVars, globVars, configVars, resultVars, calls>>

\* the loop of the innermost _walk_directory is over (or iterdir raised):
\* it returns to its caller (discovery.py:87-92)
WalkReturn ==
    /\ stack # <<>>
    /\ stack[Len(stack)].item > Len(Listing(stack[Len(stack)].directory))
    /\ stack' = SubSeq(stack, 1, Len(stack) - 1)
    /\ UNCHANGED <<paths, config, path_index, discovered_files, unique_files, dpc>>
    /\ UNCHANGED <<coreVars, globVars, configVars, resultVars, calls>>

\* the loop over paths is over: remove the duplicates, sort and return
\* (discovery.py:60-67)
ReturnUnique ==
    /\ dpc = "paths"
    /\ stack = <<>>
    /\ path_index > Len(paths)
    /\ unique_files' = SortPaths(remove_duplicates(discovered_files))
    /\ dpc' = "returned"
    /\ UNCHANGED <<paths, config, path_index, stack, discovered_files>>
    /\ UNCHANGED <<coreVars, globVars, configVars, resultVars, calls>>

DiscoveryNext == \/ CallDiscover
                 \/ NextPath
                 \/ WalkItem
                 \/ WalkReturn
                 \/ ReturnUnique

DiscoverySpec == DiscoveryInit /\ [][DiscoveryNext]_vars

(***************************************************************************)
(* _walk_directory(directory) called on a directory, depth 0               *)
(***************************************************************************)
WalkRoots == {<<"tests">>, Tests, <<"tests", "sub">>, <<"tests", "sub", "deep">>}

WalkInit == CoreIdle /\ LibraryIdle

\* the call _walk_directory(directory) of discovery.py:52
CallWalk ==
    /\ dpc = "idle"
    /\ \E directory \in WalkRoots, max_depth \in 0..MaxDepth, recursive \in BOOLEAN :
          /\ paths' = <<directory>>
          /\ config' = DiscoveryConfig(max_depth, recursive)
          /\ stack' = Enter(directory, 0, max_depth)
    /\ dpc' = "walk"
    /\ UNCHANGED <<path_index, discovered_files, unique_files>>
    /\ UNCHANGED <<coreVars, globVars, configVars, resultVars, calls>>

WalkNext == \/ CallWalk
            \/ WalkItem
            \/ WalkReturn

WalkSpec == WalkInit /\ [][WalkNext]_vars

\* _walk_directory is sequential code: a step that can be taken is taken
WalkFairSpec == WalkSpec /\ WF_vars(WalkNext)

(***************************************************************************)
(* _matches_glob_pattern(filename, pattern), called once                    *)
(***************************************************************************)
Filenames == {"test_a.na", "a_test.na", "test_.na", "test.na", "helper.na", ".na",
              "abc", "abbc", "ab", "cba", ""}
Patterns == {"test_*.na", "*_test.na", "test_*", "*.na", "*", "**", "abc", "ab*bc",
             "a*b*c", "test_*_test.na"}

GlobInit == /\ CoreIdle
            /\ DiscoveryIdle
            /\ ConfigIdle
            /\ ResultIdle
            /\ calls = <<>>
            /\ filename \in Filenames
            /\ pattern \in Patterns
            /\ matched = <<>>

MatchGlob ==
    /\ matched = <<>>
    /\ matched' = <<matches_glob_pattern(filename, pattern)>>
    /\ UNCHANGED <<filename, pattern>>
    /\ UNCHANGED <<coreVars, discoveryVars, configVars, resultVars, calls>>

GlobNext == MatchGlob

GlobSpec == GlobInit /\ [][GlobNext]_vars

(***************************************************************************)
(* datest/config.py: DatestConfig.find_and_load.  directories is the path  *)
(* from the resolved start directory (the first) up to the root of the     *)
(* file system (the last, its own parent); a directory is a record of what *)
(* it holds under the names datest.toml and pyproject.toml.  A file that   *)
(* parses holds its own patterns, named after the file and the directory.  *)
(***************************************************************************)
MaxAncestors == 2

DatestStates == {"absent", "broken", "valid"}
PyprojectStates == {"absent", "broken", "plain", "section"}
Directory == [datest : DatestStates, pyproject : PyprojectStates]

DefaultPatterns == <<"test_*.na", "*_test.na">>
DatestConfig(test_patterns) == [test_patterns |-> test_patterns]

\* what tomllib.load gives for the datest.toml of the n-th directory
DatestData(n) == [discovery |-> [patterns |-> <<"datest" \o ToString(n) \o "_*.na">>]]
\* data["tool"]["datest"] of the pyproject.toml of the n-th directory
PyprojectData(n) == [discovery |-> [patterns |-> <<"pyproject" \o ToString(n) \o "_*.na">>]]

from_dict(data) ==
    DatestConfig(IF "discovery" \in DOMAIN data /\ "patterns" \in DOMAIN data.discovery
                 THEN data.discovery.patterns
                 ELSE DefaultPatterns)

\* load_from_file of the datest.toml of the n-th directory
load_from_file(n, state) ==
    IF state = "valid" THEN from_dict(DatestData(n)) ELSE DatestConfig(DefaultPatterns)

\* _load_from_pyproject of the pyproject.toml of the n-th directory: <<>> is None
load_from_pyproject(n, state) ==
    IF state = "section" THEN <<from_dict(PyprojectData(n))>> ELSE <<>>

RECURSIVE DirectoryLists(_)
DirectoryLists(n) ==
    IF n = 0 THEN {<<>>}
    ELSE {Append(l, d) : l \in DirectoryLists(n - 1), d \in Directory}

ConfigInit == /\ CoreIdle
              /\ DiscoveryIdle
              /\ GlobIdle
              /\ ResultIdle
              /\ calls = <<>>
              /\ \E n \in 1..(MaxAncestors + 1) : directories \in DirectoryLists(n)
              /\ current = 1
              /\ loaded = <<>>

\* one iteration of the loop of find_and_load (config.py:104-116)
CheckDirectory ==
    /\ loaded = <<>>
    /\ current < Len(directories)
    /\ LET d == directories[current] IN
       IF d.datest # "absent"
       THEN /\ loaded' = <<load_from_file(current, d.datest)>>
            /\ UNCHANGED current
       ELSE IF d.pyproject # "absent" /\ load_from_pyproject(current, d.pyproject) # <<>>
            THEN /\ loaded' = load_from_pyproject(current, d.pyproject)
                 /\ UNCHANGED current
            ELSE /\ current' = current + 1
                 /\ UNCHANGED loaded
    /\ UNCHANGED directories
    /\ UNCHANGED <<coreVars, discoveryVars, globVars, resultVars, calls>>

\* current is its own parent: the loop is over and the defaults are
\* returned (config.py:118-120)
ReturnDefaults ==
    /\ loaded = <<>>
    /\ current = Len(directories)
    /\ loaded' = <<DatestConfig(DefaultPatterns)>>
    /\ UNCHANGED <<directories, current>>
    /\ UNCHANGED <<coreVars, discoveryVars, globVars, resultVars, calls>>

ConfigNext == CheckDirectory \/ ReturnDefaults

ConfigSpec == ConfigInit /\ [][ConfigNext]_vars

(***************************************************************************)
(* datest/models.py: the derived lists of a DanaTestResult                  *)
(***************************************************************************)
IsPassed(a) == Truthy(a.passed)
IsNotPassed(a) == ~Truthy(a.passed)

passed_assertions(list) == SelectSeq(list, IsPassed)

\* the failed list as the assertions whose flag is the value False
failed_assertions_FalseOnly(list) ==
    LET IsFalse(a) == a.passed = PyBool(FALSE) IN SelectSeq(list, IsFalse)

failed_assertions(list) == SelectSeq(list, IsNotPassed)

ResultInit == /\ CoreIdle
              /\ DiscoveryIdle
              /\ GlobIdle
              /\ ConfigIdle
              /\ calls = <<>>
              /\ assertions \in AssertionLists(MaxAssertions)
              /\ views = <<>>

\* a read of result.passed_assertions and result.failed_assertions
ReadViews ==
    /\ views = <<>>
    /\ views' = <<[passed_assertions |-> passed_assertions(assertions),
                   failed_assertions |-> failed_assertions(assertions)]>>
    /\ UNCHANGED assertions
    /\ UNCHANGED <<coreVars, discoveryVars, globVars, configVars, calls>>

ResultNext == ReadViews

ResultSpec == ResultInit /\ [][ResultNext]_vars

(***************************************************************************)
(* Repeated calls of parse_output on the parser instances of a process.    *)
(* DanaAssertionParser defines no __init__ and no instance attribute, and  *)
(* its class attributes are only read: an instance is its identity.        *)
(***************************************************************************)
MaxCalls == 3

Parsers == {1, 2}
CallOutputs == {ScenarioText, "Line 10: assert x == 5 passed\nlog(\"Starting tests\")",
                "{\"tests\": [{\"line\": 10, \"message\": \"x==5\", \"passed\": true}]}"}
CallErrors == {"", "Error: Undefined variable 'x'"}

\* the call with a parser that keeps the text of the call before
Call_KeepsLastOutput(parser, output_text, error_text) ==
    [parser |-> parser, output_text |-> output_text, error_text |-> error_text,
     ret |-> parse_output(IF calls = <<>> THEN output_text
                          ELSE calls[Len(calls)].output_text \o "\n" \o output_text,
                          error_text)]

\* parser.parse_output(output_text, error_text) and what it returned
Call(parser, output_text, error_text) ==
    [parser |-> parser, output_text |-> output_text, error_text |-> error_text,
     ret |-> parse_output(output_text, error_text)]

CallInit == /\ CoreIdle
            /\ DiscoveryIdle
            /\ GlobIdle
            /\ ConfigIdle
            /\ ResultIdle
            /\ calls = <<>>

CallParseOutput ==
    /\ Len(calls) < MaxCalls
    /\ \E parser \in Parsers, output_text \in CallOutputs, error_text \in CallErrors :
          calls' = Append(calls, Call(parser, output_text, error_text))
    /\ UNCHANGED <<coreVars, discoveryVars, globVars, configVars, resultVars>>

CallNext == CallParseOutput

CallSpec == CallInit /\ [][CallNext]_vars

(***************************************************************************)
(* parse_output on plain text: the lines of TextLines, a line that holds   *)
(* both a log call and an indicator, and one that ends in "log "            *)
(***************************************************************************)
PlainLines == TextLines \cup {"log(\"test 3 passed\")", "see the dialog "}

RECURSIVE PlainTexts(_)
PlainTexts(n) == IF n <= 1 THEN PlainLines
                 ELSE PlainTexts(n - 1)
                         \cup {t \o "\n" \o l : t \in PlainTexts(n - 1), l \in PlainLines}

TextInit == /\ output \in PlainTexts(MaxLines)
            /\ error_output \in {"", "Error: Undefined variable 'x'"}
            /\ pc = "call"
            /\ ret = Returned(<<>>)
            /\ SummaryIdle
            /\ ExecutorIdle
            /\ CliIdle
            /\ LibraryIdle

TextSpec == TextInit /\ [][Next]_vars

(***************************************************************************)
(* Vocabulary of the properties                                             *)
(***************************************************************************)
IsAssertKind(a) == a.assertion_type = "assert"
IsErrorKind(a) == a.assertion_type = "error"
IsLogKind(a) == a.assertion_type = "log"

\* the document decoded from the first '{' of a text to its end
Decodable(text) == Find(text, "{") > 0 /\ JsonLoads(From(text, Find(text, "{"))).ok
Document(text) == JsonLoads(From(text, Find(text, "{"))).v

\* a value that is a list of objects
IsObjectList(val) == val.t = "list" /\ \A n \in 1..Len(val.v) : val.v[n].t = "dict"
SectionIsObjectList(data, key) == ~DictHas(data.v, key) \/ IsObjectList(DictGet(data.v, key))
Entries(data, key) == IF DictHas(data.v, key) THEN DictGet(data.v, key).v ELSE <<>>
Field(entry, key, default) == IF DictHas(entry.v, key) THEN DictGet(entry.v, key) ELSE default

\* structured mode yields a non-empty list for this text
Structured(text) ==
    /\ Find(text, "{") > 0
    /\ LET data == JsonLoads(From(text, Find(text, "{"))) IN
        /\ data.ok
        /\ SectionIsObjectList(data.v, "tests")
        /\ SectionIsObjectList(data.v, "logs")
        /\ Len(Entries(data.v, "tests")) + Len(Entries(data.v, "logs")) > 0

HasPassIndicator(line) == \E n \in 1..Len(PASS_INDICATORS) : Contains(line, PASS_INDICATORS[n])
HasFailIndicator(line) == \E n \in 1..Len(FAIL_INDICATORS) : Contains(line, FAIL_INDICATORS[n])

\* the 1-based positions, in order, of the lines of a text that hold an indicator
IndicatorLineNumbers(text) ==
    LET lines == SplitLines(text)
        Holds(i) == HasPassIndicator(lines[i]) \/ HasFailIndicator(lines[i])
    IN  SelectSeq([i \in 1..Len(lines) |-> i], Holds)

\* the returned assertions of kind assert, in order
ReturnedAsserts == SelectSeq(ret.assertions, IsAssertKind)

\* parse_output has returned from text mode
TextModeReturned == pc = "returned" /\ ~Structured(output)

\* C1: for every (output_text, error_text) parse_output returns a list and
\* never raises, also when 'tests' or 'logs' of a decodable document is not
\* a list of objects.
C1_NeverRaises == pc # "raised"

\* the lines of a text that are by themselves a JSON object whose 'tests' is
\* a non-empty list of objects ('logs', when present, a list of objects)
TestsDocumentLines(text) ==
    LET lines == SplitLines(text) IN
    {i \in 1..Len(lines) :
        /\ JsonLoads(lines[i]).ok
        /\ JsonLoads(lines[i]).v.t = "dict"
        /\ DictHas(JsonLoads(lines[i]).v.v, "tests")
        /\ IsObjectList(DictGet(JsonLoads(lines[i]).v.v, "tests"))
        /\ DictGet(JsonLoads(lines[i]).v.v, "tests").v # <<>>
        /\ SectionIsObjectList(JsonLoads(lines[i]).v, "logs")}

\* C2: when output_text contains a valid JSON object with a 'tests' array,
\* parse_output returns exactly len(tests) + len(logs) assertions carrying
\* the line numbers of the JSON, whatever plain-text lines come before or
\* after the JSON payload.  (Stated for a text with one such object, on a
\* line of its own, its 'tests' array not empty.)
C2_JsonCountRegardlessOfText ==
    (pc = "returned" /\ Cardinality(TestsDocumentLines(output)) = 1) =>
        LET doc == JsonLoads(SplitLines(output)[SetMin(TestsDocumentLines(output))]).v
            entries == Entries(doc, "tests") \o Entries(doc, "logs")
        IN  /\ Len(ret.assertions) = Len(entries)
            /\ \A n \in 1..Len(entries) :
                  ret.assertions[n].line_number = Field(entries[n], "line", PyInt(0))

\* the assert-kind assertions parse_output finds in a completed run's streams
FailedAssertParsed(stdout, stderr) ==
    \E n \in 1..Len(parse_output(stdout, stderr).assertions) :
        /\ IsAssertKind(parse_output(stdout, stderr).assertions[n])
        /\ parse_output(stdout, stderr).assertions[n].passed = PyBool(FALSE)

\* C3: for every file whose interpreter process ran to completion, success
\* is true exactly when the exit code is 0 and no parsed assertion of kind
\* assert has passed == false.
C3_SuccessIffExitZeroAndNoFailedAssert ==
    \A n \in 1..Len(results) :
        runs[n].kind = "completed" =>
            (results[n].success <=>
                (results[n].exit_code = 0 /\ ~FailedAssertParsed(results[n].output, results[n].errors)))

\* the kind and verdict of the n-th returned assertion
Is(n, kind, passed) == /\ ret.assertions[n].assertion_type = kind
                       /\ ret.assertions[n].passed = PyBool(passed)

\* parse_output has returned for the three-line scenario with empty error text
ScenarioReturned == output = ScenarioText /\ error_output = "" /\ pc = "returned"

\* C4 (as claimed): the three-line scenario yields exactly 3 assertions in
\* line order: assert passed, assert failed, and an error-kind assertion,
\* not passed, for the 'Error: ...' line.
C4_ScenarioEndsWithErrorKind ==
    ScenarioReturned =>
        /\ Len(ret.assertions) = 3
        /\ Is(1, "assert", TRUE)
        /\ Is(2, "assert", FALSE)
        /\ Is(3, "error", FALSE)

\* C4 (amended): the three-line scenario yields exactly 3 assertions in line
\* order, all of kind assert: passed, not passed, and not passed for the
\* 'Error: ...' line, which holds the fail indicator "failed"; their line
\* numbers are 1, 2, 3.
C4_ScenarioAllAssertKind ==
    ScenarioReturned =>
        /\ Len(ret.assertions) = 3
        /\ Is(1, "assert", TRUE)
        /\ Is(2, "assert", FALSE)
        /\ Is(3, "assert", FALSE)
        /\ \A n \in 1..3 : ret.assertions[n].line_number = PyInt(n)

C4_Witness == ScenarioReturned /\ Len(ret.assertions) = 3

\* C5: every returned assertion of kind log has passed == true and every
\* one of kind error has passed == false, in structured mode, text mode and
\* error-text parsing alike.
C5_LogPassedErrorFailed ==
    pc = "returned" =>
        \A n \in 1..Len(ret.assertions) :
            /\ IsLogKind(ret.assertions[n]) => ret.assertions[n].passed = PyBool(TRUE)
            /\ IsErrorKind(ret.assertions[n]) => ret.assertions[n].passed = PyBool(FALSE)

\* a structured result with a log whose entry carries "passed": false
C5_Witness ==
    /\ pc = "returned"
    /\ Structured(output)
    /\ \E n \in 1..Len(Entries(Document(output), "logs")) :
          Field(Entries(Document(output), "logs")[n], "passed", PyNone) = PyBool(FALSE)
    /\ \E n \in 1..Len(ret.assertions) : IsLogKind(ret.assertions[n])

\* C6: in text mode the assert assertion emitted for a line has
\* passed == (a pass indicator is on the line) AND NOT (a fail indicator is
\* on the line); there is one such assertion per line that holds an
\* indicator, in line order.
C6_PassedIffPassAndNoFail ==
    TextModeReturned =>
        LET lines == SplitLines(output)
            at == IndicatorLineNumbers(output)
        IN  /\ Len(ReturnedAsserts) = Len(at)
            /\ \A n \in 1..Len(at) :
                  ReturnedAsserts[n].passed =
                      PyBool(HasPassIndicator(lines[at[n]]) /\ ~HasFailIndicator(lines[at[n]]))

\* text mode has returned a failed assertion for a line that holds both a
\* pass and a fail indicator
C6_Witness ==
    /\ TextModeReturned
    /\ \E n \in 1..Len(IndicatorLineNumbers(output)) :
          /\ HasPassIndicator(SplitLines(output)[IndicatorLineNumbers(output)[n]])
          /\ HasFailIndicator(SplitLines(output)[IndicatorLineNumbers(output)[n]])
          /\ ReturnedAsserts[n].passed = PyBool(FALSE)

\* C7: when structured mode yields a non-empty list, parse_output returns
\* exactly one assert per 'tests' entry in array order followed by one log
\* per 'logs' entry in array order, each with the entry's line number, and
\* nothing derived from text mode or from error_text.
C7_StructuredResultIsTestsThenLogs ==
    (pc = "returned" /\ Structured(output)) =>
        LET tests == Entries(Document(output), "tests")
            logs == Entries(Document(output), "logs")
        IN  /\ Len(ret.assertions) = Len(tests) + Len(logs)
            /\ \A n \in 1..Len(tests) :
                  /\ IsAssertKind(ret.assertions[n])
                  /\ ret.assertions[n].line_number = Field(tests[n], "line", PyInt(0))
            /\ \A n \in 1..Len(logs) :
                  /\ IsLogKind(ret.assertions[Len(tests) + n])
                  /\ ret.assertions[Len(tests) + n].line_number = Field(logs[n], "line", PyInt(0))

\* a structured result returned although error_text holds an error line and
\* a plain line with an indicator precedes the document
C7_Witness ==
    /\ pc = "returned"
    /\ Structured(output)
    /\ Contains(error_output, "Error")
    /\ IndicatorLineNumbers(SubSeq(output, 1, Find(output, "{") - 1)) # <<>>
    /\ Entries(Document(output), "tests") # <<>>
    /\ Entries(Document(output), "logs") # <<>>

C9_MissingFieldsDefaulted ==
    (pc = "returned" /\ Structured(output)) =>
        LET tests == Entries(Document(output), "tests")
            logs == Entries(Document(output), "logs")
        IN  /\ \A n \in 1..Len(tests) :
                  /\ ~DictHas(tests[n].v, "line") => ret.assertions[n].line_number = PyInt(0)
                  /\ ~DictHas(tests[n].v, "message") => ret.assertions[n].message = PyStr("")
                  /\ ~DictHas(tests[n].v, "passed") => ret.assertions[n].passed = PyBool(FALSE)
                  /\ ~DictHas(tests[n].v, "source") => ret.assertions[n].source_line = PyStr("")
            /\ \A n \in 1..Len(logs) :
                  /\ ~DictHas(logs[n].v, "line") =>
                        ret.assertions[Len(tests) + n].line_number = PyInt(0)
                  /\ ~DictHas(logs[n].v, "message") =>
                        ret.assertions[Len(tests) + n].message = PyStr("")
                  /\ ret.assertions[Len(tests) + n].passed = PyBool(TRUE)

\* a structured result for a document with an empty 'tests' entry and a
\* 'logs' entry that has a 'passed' field and no line
C9_Witness ==
    /\ pc = "returned"
    /\ Structured(output)
    /\ \E n \in 1..Len(Entries(Document(output), "tests")) :
          Entries(Document(output), "tests")[n].v = <<>>
    /\ \E n \in 1..Len(Entries(Document(output), "logs")) :
          /\ DictHas(Entries(Document(output), "logs")[n].v, "passed")
          /\ ~DictHas(Entries(Document(output), "logs")[n].v, "line")

\* the positions on a line at which a 'Line <N>' starts
LineNumberPositions(line) == {p \in 1..Len(line) : LineNumberAt(line, p).ok}

\* C10 (as claimed): a text-mode assert assertion has the N of the line's
\* explicit 'Line <N>' prefix as line_number; without such a prefix its
\* line_number is the 1-based position of the line within output_text.
C10_PrefixElsePosition ==
    TextModeReturned =>
        LET lines == SplitLines(output)
            at == IndicatorLineNumbers(output)
        IN  /\ Len(ReturnedAsserts) = Len(at)
            /\ \A n \in 1..Len(at) :
                  LET line == Strip(lines[at[n]]) IN
                  ReturnedAsserts[n].line_number =
                      IF LineNumberAt(line, 1).ok
                      THEN PyInt(ParseInt(LineNumberAt(line, 1).g1))
                      ELSE PyInt(at[n])

\* C10 (amended): a text-mode assert assertion of a line that holds no
\* 'Line <N>' anywhere has the 1-based position of the line within
\* output_text as line_number.  A line that holds 'Line <N>' anywhere, as a
\* prefix or not, gives the N of its first 'Line <N>', unless the assert
\* pattern matched together with a 'Line <N>:' in front of the assert
\* keyword, which then gives the N.
C10_LineNumberFromAnyLineN ==
    TextModeReturned =>
        LET lines == SplitLines(output)
            at == IndicatorLineNumbers(output)
        IN  /\ Len(ReturnedAsserts) = Len(at)
            /\ \A n \in 1..Len(at) :
                  LET line == Strip(lines[at[n]])
                      positions == LineNumberPositions(line)
                      found == AssertPatternSearch(line)
                  IN  ReturnedAsserts[n].line_number =
                          IF positions = {} THEN PyInt(at[n])
                          ELSE IF found.has1 THEN PyInt(ParseInt(found.g1))
                          ELSE PyInt(ParseInt(LineNumberAt(line, SetMin(positions)).g1))

\* text mode has returned, for the second line of the text, an assertion
\* numbered by a 'Line <N>' that is not at the start of the line, and for
\* another line one numbered by its position
C10_Witness ==
    /\ TextModeReturned
    /\ \E n \in 1..Len(IndicatorLineNumbers(output)) :
          LET line == Strip(SplitLines(output)[IndicatorLineNumbers(output)[n]]) IN
          /\ ~LineNumberAt(line, 1).ok
          /\ LineNumberPositions(line) # {}
          /\ ReturnedAsserts[n].line_number # PyInt(IndicatorLineNumbers(output)[n])
    /\ \E n \in 1..Len(IndicatorLineNumbers(output)) :
          /\ LineNumberPositions(SplitLines(output)[IndicatorLineNumbers(output)[n]]) = {}
          /\ ReturnedAsserts[n].line_number = PyInt(IndicatorLineNumbers(output)[n])

\* the returned assertions of kind log, in order
ReturnedLogs == SelectSeq(ret.assertions, IsLogKind)

\* the 1-based positions, in order, of the lines of a text that hold no
\* indicator and, once trimmed, hold "log(" or "log "
LogLineNumbers(text) ==
    LET lines == SplitLines(text)
        Holds(i) == /\ ~HasPassIndicator(lines[i])
                    /\ ~HasFailIndicator(lines[i])
                    /\ Contains(Strip(lines[i]), "log(") \/ Contains(Strip(lines[i]), "log ")
    IN  SelectSeq([i \in 1..Len(lines) |-> i], Holds)

\* a text without one leading and one trailing quote character
StripOneQuote(text) ==
    LET first == IF Len(text) > 0 /\ IsQuote(CharAt(text, 1)) THEN 2 ELSE 1
        last == IF Len(text) >= first /\ IsQuote(CharAt(text, Len(text)))
                THEN Len(text) - 1 ELSE Len(text)
    IN  SubSeq(text, first, last)

\* the message C11 gives for a trimmed log line
ClaimedLogMessage(line) ==
    IF Contains(line, "log(") /\ RFind(line, ")") > Find(line, "log(") + 4
    THEN StripOneQuote(Strip(SubSeq(line, Find(line, "log(") + 4, RFind(line, ")") - 1)))
    ELSE line

\* C11: for a text-mode line with no indicator token that contains 'log(',
\* the message of the log assertion is the text between the first 'log('
\* and the last ')' of the line, trimmed and without a single leading and a
\* single trailing quote character; for a line that holds only 'log ' the
\* message is the whole line.
C11_LogMessageSingleQuoteStripped ==
    TextModeReturned =>
        /\ Len(ReturnedLogs) = Len(LogLineNumbers(output))
        /\ \A n \in 1..Len(LogLineNumbers(output)) :
              ReturnedLogs[n].message =
                  PyStr(ClaimedLogMessage(Strip(SplitLines(output)[LogLineNumbers(output)[n]])))

\* the leftmost positions on a line at which "Error:" or "Exception:" starts
\* with at least one character after the colon
ErrorShapePositions(line) ==
    {k \in 1..Len(line) : \/ StartsAt(line, "Error:", k) /\ k + 6 <= Len(line)
                          \/ StartsAt(line, "Exception:", k) /\ k + 10 <= Len(line)}

\* what C12 gives for one trimmed line of error_text
ClaimedErrorLine(line) ==
    IF line = "" THEN <<>>
    ELSE IF ErrorShapePositions(line) # {}
         THEN LET k == SetMin(ErrorShapePositions(line))
                  ty == IF StartsAt(line, "Error:", k) THEN "Error" ELSE "Exception"
                  prefixes == {p \in LineNumberPositions(line) : LinePrefixEnd(line, p) = k}
              IN  <<DanaAssertion(PyInt(IF prefixes = {} THEN 0
                                        ELSE ParseInt(LineNumberAt(line, SetMin(prefixes)).g1)),
                                  "error",
                                  PyStr(ty \o ": " \o Strip(From(line, k + Len(ty) + 1))),
                                  PyBool(FALSE), PyNone)>>
    ELSE IF Contains(line, "Error") \/ Contains(line, "Exception")
         THEN <<DanaAssertion(PyInt(0), "error", PyStr(line), PyBool(FALSE), PyNone)>>
    ELSE <<>>

\* what C12 gives for error_text
ClaimedErrors(text) ==
    ConcatFrom([i \in 1..Len(SplitLines(text)) |-> ClaimedErrorLine(Strip(SplitLines(text)[i]))], 1)

\* C12: when structured mode did not short-circuit, the result is the
\* text-mode assertions followed by the error-text assertions: a line of
\* error_text of the shape '[Line N:] (Error|Exception): message' gives one
\* error assertion with line_number N (0 if absent), message
\* '<ErrorType>: <message>' and passed = false; any other line that holds
\* 'Error' or 'Exception' gives one with line 0 and the whole line as
\* message; other lines give nothing.  With empty output_text every
\* returned assertion is of kind error and not passed.
C12_TextThenErrorAssertions ==
    TextModeReturned =>
        /\ LET claimed == parse_text_output(output) \o ClaimedErrors(error_output) IN
           claimed # <<>> => ret.assertions = claimed
        /\ output = "" =>
              \A n \in 1..Len(ret.assertions) :
                  IsErrorKind(ret.assertions[n]) /\ ret.assertions[n].passed = PyBool(FALSE)

\* text mode has returned text assertions followed by the error assertions
\* of an error_text with a 'Line 3: Exception: ...' line, a blank line and a
\* line without Error or Exception
C12_Witness ==
    /\ TextModeReturned
    /\ parse_text_output(output) # <<>>
    /\ ~IsErrorKind(ret.assertions[1])
    /\ Len(SplitLines(error_output)) = 3
    /\ Len(ret.assertions) = Len(parse_text_output(output)) + 1
    /\ ret.assertions[Len(ret.assertions)].line_number = PyInt(3)
    /\ IsErrorKind(ret.assertions[Len(ret.assertions)])

\* the synthetic assertion C13 gives for a text
ClaimedGeneric(text) ==
    IF HasPassIndicator(text)
    THEN <<DanaAssertion(PyInt(0), "result", PyStr("Test passed"), PyBool(TRUE), PyNone)>>
    ELSE IF HasFailIndicator(text)
         THEN <<DanaAssertion(PyInt(0), "result", PyStr("Test failed"), PyBool(FALSE), PyNone)>>
    ELSE <<>>

\* C13: when structured, text and error-text parsing together produce zero
\* assertions, parse_output returns exactly one synthetic result assertion
\* if output_text holds an indicator token (passed = true, 'Test passed'
\* when a pass indicator is present; otherwise passed = false, 'Test
\* failed') and the empty sequence when it holds none; empty stdout with
\* empty stderr gives the empty sequence.  _parse_generic_results itself
\* gives that synthetic assertion for every text.
C13_GenericFallback ==
    /\ pc = "call" => parse_generic_results(output) = ClaimedGeneric(output)
    /\ (TextModeReturned /\ parse_error_output(error_output) = <<>>
                          /\ parse_text_output(output) = <<>>) =>
          ret.assertions = ClaimedGeneric(output)
    /\ (pc = "returned" /\ output = "" /\ error_output = "") => ret.assertions = <<>>

\* parse_output has returned the empty sequence for empty stdout and stderr
C13_Witness ==
    /\ pc = "returned"
    /\ output = ""
    /\ error_output = ""
    /\ ret.assertions = <<>>

\* C14: every assertion parse_output returns has a line_number that is a
\* non-negative integer, also for a structured entry whose 'line' comes
\* from the external process.
C14_LineNumberNonNegative ==
    pc = "returned" =>
        \A n \in 1..Len(ret.assertions) :
            /\ ret.assertions[n].line_number.t = "int"
            /\ ret.assertions[n].line_number.v >= 0

\* run_multiple_files has returned one result per file, the i-th for the
\* i-th file, a timed-out file marked failed with exit code 124
OneResultPerFile ==
    /\ Len(results) = Len(file_paths)
    /\ \A i \in 1..Len(results) :
          /\ results[i].file_path = file_paths[i]
          /\ runs[i].kind = "TimeoutExpired" =>
                (~results[i].success /\ results[i].exit_code = 124)

\* C15: run_multiple_files on a list of n files always terminates with
\* exactly n results, the i-th result belonging to the i-th file, whatever
\* the outcome of each file (normal exit, timeout, command not found, other
\* execution error): a file that times out is marked success = false with
\* exit code 124 and the next file is executed.
C15_TerminatesWithOneResultPerFile ==
    /\ <>(epc = "returned")
    /\ [](epc = "returned" => OneResultPerFile)

\* run_multiple_files has returned two results, the first for a file that
\* timed out, the second for a file that ran to completion
C15_Witness ==
    /\ epc = "returned"
    /\ Len(results) = 2
    /\ runs[1].kind = "TimeoutExpired"
    /\ runs[2].kind = "completed"
    /\ results[2].success

\* C16: when a file cannot be executed normally its result has
\* success = false and an exit code fixed by the cause: 124 for a timeout,
\* 127 when the interpreter command was not found, 2 for any other
\* unexpected error; the errors text describes the cause.
C16_ExitCodeByCause ==
    \A n \in 1..Len(results) :
        runs[n].kind # "completed" =>
            /\ ~results[n].success
            /\ results[n].errors # ""
            /\ results[n].exit_code = CASE runs[n].kind = "TimeoutExpired" -> 124
                                        [] runs[n].kind = "FileNotFoundError" -> 127
                                        [] OTHER -> 2

\* main has exited in one of the four failure branches
FailureOutcomes ==
    {"no test files found", "interpreter unavailable", "test files failed", "internal error"}

\* the exit code main uses for a failure outcome
ExitCodeOf(outcome) ==
    CASE outcome = "no test files found" -> ExitNoTestFiles
      [] outcome = "interpreter unavailable" -> ExitDanaUnavailable
      [] outcome = "test files failed" -> ExitTestFailures
      [] outcome = "internal error" -> ExitInternalError

\* C17 (as claimed): the exit code of each of the four failure outcomes 'no
\* test files found', 'interpreter unavailable', 'one or more test files
\* failed' and 'internal error' differs from the exit codes of the other
\* three.
C17_FailureExitCodesDistinct ==
    cli_outcome \in FailureOutcomes =>
        \A other \in FailureOutcomes \ {cli_outcome} : exit_status # <<ExitCodeOf(other)>>

\* C17 (amended): main exits with 1 both when no test files are found and
\* when test files failed, and with 2 both when the interpreter is
\* unavailable and on an internal error: the exit code tells the members of
\* each pair from those of the other pair, from success (0) and from an
\* interrupt (130), and every failure outcome exits with a code other
\* than 0.
C17_FailureExitCodesInPairs ==
    /\ cli_outcome \in {"no test files found", "test files failed"} => exit_status = <<1>>
    /\ cli_outcome \in {"interpreter unavailable", "internal error"} => exit_status = <<2>>
    /\ cli_outcome \in {"all passed", "discovery complete"} => exit_status = <<0>>
    /\ cli_outcome = "interrupted" => exit_status = <<130>>

\* main has exited because a test file failed, with the exit code it also
\* uses when no test files are found
C17_Witness ==
    /\ cli_outcome = "test files failed"
    /\ failed_count(results) > 0
    /\ exit_status = <<ExitNoTestFiles>>

\* C18: if a user interrupt arrives while the CLI is discovering or
\* executing files, no further test file is executed after the interrupt,
\* the results already produced are not altered, and the CLI exits with
\* code 130.
C18_InterruptStopsWithExit130 ==
    [][cli_outcome' = "interrupted" =>
          /\ exit_status' = <<130>>
          /\ mpc' = "exited"
          /\ results' = results
          /\ runs' = runs]_vars

\* an interrupt has ended main after the first of two files was executed
C18_Witness ==
    /\ cli_outcome = "interrupted"
    /\ exit_status = <<130>>
    /\ Len(file_paths) = 2
    /\ Len(results) = 1

\* C19: for every non-empty list of results the summary has total = number
\* of results, passed = number with success true, failed = total - passed,
\* total_duration = sum of the durations; 'All tests passed' is reported
\* exactly when failed = 0, otherwise the number of failed files.
C19_SummaryTotals ==
    (report # <<>>) =>
        LET passing == {n \in 1..Len(results) : results[n].success}
            failing == {n \in 1..Len(results) : ~results[n].success}
        IN  /\ results # <<>>
            /\ report[1].total = Len(results)
            /\ report[1].passed = Cardinality(passing)
            /\ report[1].failed = report[1].total - report[1].passed
            /\ report[1].passed + report[1].failed = report[1].total
            /\ report[1].total_duration = SumDurations(results)
            /\ report[1].overall = "All tests passed!" <=> failing = {}
            /\ failing # {} =>
                  report[1].overall = ToString(Cardinality(failing)) \o " test file(s) failed"

\* a report on two files of different durations, one passed and one failed
C19_Witness ==
    /\ report # <<>>
    /\ Len(results) = 2
    /\ results[1].duration # results[2].duration
    /\ report[1].passed = 1
    /\ report[1].failed = 1

\* the given assertions of kind assert
GivenAsserts == SelectSeq(given, IsAssertKind)

\* C20: extract_test_summary(assertions) returns (p, f), p the number of
\* assertions of kind assert with passed true and f the number of kind
\* assert with passed false; assertions of kind log, error or result are
\* never counted, so p + f is the number of assert-kind assertions.
C20_SummaryCountsAssertsOnly ==
    (summary # <<>>) =>
        /\ summary[1] = Cardinality({n \in 1..Len(GivenAsserts) : Truthy(GivenAsserts[n].passed)})
        /\ summary[2] = Cardinality({n \in 1..Len(GivenAsserts) : ~Truthy(GivenAsserts[n].passed)})
        /\ summary[1] + summary[2] = Len(GivenAsserts)

\* a summary of a passed assert followed by a failed assertion of another
\* kind
C20_Witness ==
    /\ summary = <<1, 0>>
    /\ Len(given) = 2
    /\ IsAssertKind(given[1])
    /\ ~IsAssertKind(given[2])
    /\ ~Truthy(given[2].passed)

\* glob semantics: "*" stands for any string, the empty one included, and
\* every other character for itself
RECURSIVE GlobMatches(_, _)
GlobMatches(name, glob) ==
    IF glob = "" THEN name = ""
    ELSE IF CharAt(glob, 1) = "*"
         THEN \E k \in 0..Len(name) : GlobMatches(From(name, k + 1), From(glob, 2))
         ELSE /\ name # ""
              /\ CharAt(name, 1) = CharAt(glob, 1)
              /\ GlobMatches(From(name, 2), From(glob, 2))

\* path a is path b or lies below it
IsAtOrBelow(a, b) == Len(b) <= Len(a) /\ SubSeq(a, 1, Len(b)) = b

RECURSIVE SplitsByFlag(_, _, _)
SplitsByFlag(all, p, f) ==
    IF all = <<>> THEN p = <<>> /\ f = <<>>
    ELSE IF Truthy(all[1].passed)
         THEN p # <<>> /\ p[1] = all[1] /\ SplitsByFlag(Tail(all), Tail(p), f)
         ELSE f # <<>> /\ f[1] = all[1] /\ SplitsByFlag(Tail(all), p, Tail(f))

\* C23: passed_assertions and failed_assertions of a test result are
\* order-preserving projections that partition the assertion list by the
\* passed flag, whatever the kind: each assertion is in exactly one of
\* them and their lengths add up to the length of the list.
C23_ViewsPartitionByFlag ==
    (views # <<>>) =>
        /\ SplitsByFlag(assertions, views[1].passed_assertions, views[1].failed_assertions)
        /\ Len(views[1].passed_assertions) + Len(views[1].failed_assertions) = Len(assertions)

\* the lists of a result that holds a failed error followed by a passed
\* log
C23_Witness ==
    /\ views # <<>>
    /\ Len(assertions) = 2
    /\ IsErrorKind(assertions[1])
    /\ IsLogKind(assertions[2])
    /\ views[1].passed_assertions = <<assertions[2]>>
    /\ views[1].failed_assertions = <<assertions[1]>>

\* the directories of the path that hold a usable config file: a
\* datest.toml that loads or a pyproject.toml with a [tool.datest] section
UsableDirectories ==
    {n \in 1..Len(directories) :
        directories[n].datest = "valid" \/ directories[n].pyproject = "section"}

\* the configuration the files of the n-th directory give, datest.toml first
ConfigOf(n) == IF directories[n].datest = "valid" THEN from_dict(DatestData(n))
               ELSE from_dict(PyprojectData(n))

\* C24: find_and_load(start) returns the configuration of the nearest
\* directory, on the path from start up through its ancestors, that holds a
\* usable config file, datest.toml before the [tool.datest] section of a
\* pyproject.toml of the same directory, and the default configuration
\* only when no directory on that path holds one.
C24_NearestUsableConfig ==
    (loaded # <<>>) =>
        loaded[1] = IF UsableDirectories = {} THEN DatestConfig(DefaultPatterns)
                    ELSE ConfigOf(SetMin(UsableDirectories))

\* the kind text mode gives the line at position i of the lines, with the
\* log check made on the line as it stands (raw) or on the trimmed line
KindOfLine(line, trimmed) ==
    IF Strip(line) = "" THEN "none"
    ELSE IF HasPassIndicator(line) \/ HasFailIndicator(line) THEN "assert"
    ELSE IF Contains(trimmed, "log(") \/ Contains(trimmed, "log ") THEN "log"
    ELSE "none"

\* the positions of the lines that yield an assertion, in order
YieldingLines(kinds) == LET Yields(i) == kinds[i] # "none"
                        IN  SelectSeq([i \in 1..Len(kinds) |-> i], Yields)

\* the text-mode part of the returned list is one assertion per yielding
\* line, in line order and of the line's kind, a log numbered by the
\* position of its line; what follows it comes from the error text
OnePerYieldingLine(kinds) ==
    LET at == YieldingLines(kinds) IN
    /\ Len(ret.assertions) >= Len(at)
    /\ \A n \in 1..Len(at) :
          /\ ret.assertions[n].assertion_type = kinds[at[n]]
          /\ kinds[at[n]] = "log" => ret.assertions[n].line_number = PyInt(at[n])
    /\ \A n \in (Len(at) + 1)..Len(ret.assertions) : IsErrorKind(ret.assertions[n])

\* C25 (as claimed): in text mode every non-blank line yields at most one
\* assertion and the assertions keep line order: a line that contains an
\* indicator token yields exactly one assert assertion and no log, a line
\* without indicator that contains "log(" or "log " yields exactly one log
\* assertion, and every other line yields none.
C25_OnePerLineByContent ==
    TextModeReturned =>
        LET lines == SplitLines(output) IN
        OnePerYieldingLine([i \in 1..Len(lines) |-> KindOfLine(lines[i], lines[i])])

\* C25 (amended): as claimed, with the log check made on the line trimmed
\* of its surrounding whitespace: a line without indicator yields one log
\* assertion exactly when the trimmed line contains "log(" or "log ".
C25_OnePerTrimmedLine ==
    TextModeReturned =>
        LET lines == SplitLines(output) IN
        OnePerYieldingLine([i \in 1..Len(lines) |-> KindOfLine(lines[i], Strip(lines[i]))])

\* text mode has returned one assert for a line that holds a log call and
\* an indicator, and after it one log for a log line
C25_Witness ==
    /\ TextModeReturned
    /\ SplitLines(output)[1] = "log(\"test 3 passed\")"
    /\ Len(ret.assertions) = 2
    /\ IsAssertKind(ret.assertions[1])
    /\ IsLogKind(ret.assertions[2])
    /\ ret.assertions[2].line_number = PyInt(2)

\* main has left through sys.exit
Exited == mpc = "exited"
ExitedWith(code) == exit_status = <<code>>

\* discovery returned and found no file (an interrupt or an exception in
\* discovery leaves file_paths empty as well)
NoFileDiscovered == file_paths = <<>> /\ cli_outcome \notin {"interrupted", "internal error"}

\* every executed file's result has success == true / some result has not
AllResultsSucceeded == \A n \in 1..Len(results) : results[n].success
SomeResultFailed == \E n \in 1..Len(results) : ~results[n].success

\* C26 (as claimed): the CLI exits with 0 exactly when at least one test
\* file was discovered and either discover-only mode is on or the
\* interpreter is available and every executed file's result has success
\* true; with 1 when no file is discovered or at least one result has
\* success false; with 2 when the interpreter is unavailable or an
\* unexpected exception occurs.
C26_ExitCodeByResults ==
    Exited =>
        /\ ExitedWith(0) <=>
              /\ file_paths # <<>>
              /\ discover_only \/ (dana_available = <<TRUE>> /\ AllResultsSucceeded)
        /\ (NoFileDiscovered \/ SomeResultFailed) => ExitedWith(1)
        /\ (dana_available = <<FALSE>> \/ cli_outcome = "internal error") => ExitedWith(2)

\* C26 (amended): an interrupt ends the run with 130 and an unexpected
\* exception with 2, whatever was discovered or executed before.  A run
\* that ends otherwise exits with 0 exactly when at least one file was
\* discovered and either discover-only mode is on or the interpreter is
\* available and every file's result has success true, with 1 exactly when
\* no file was discovered or at least one result has success false, and
\* with 2 exactly when the availability check failed.
C26_ExitCodeUnlessInterrupted ==
    Exited =>
        /\ cli_outcome = "interrupted" => ExitedWith(130)
        /\ cli_outcome = "internal error" => ExitedWith(2)
        /\ cli_outcome \notin {"interrupted", "internal error"} =>
              /\ ExitedWith(0) <=>
                    /\ file_paths # <<>>
                    /\ discover_only \/ (dana_available = <<TRUE>> /\ AllResultsSucceeded)
              /\ ExitedWith(1) <=> (NoFileDiscovered \/ SomeResultFailed)
              /\ ExitedWith(2) <=> dana_available = <<FALSE>>
              /\ dana_available = <<TRUE>> => Len(results) = Len(file_paths)

\* main has exited with 1 after two files ran, the first of which
\* succeeded and the second failed
C26_Witness ==
    /\ Exited
    /\ ExitedWith(1)
    /\ dana_available = <<TRUE>>
    /\ Len(results) = 2
    /\ results[1].success
    /\ ~results[2].success

\* C27: test files are executed and a report is generated only after
\* discovery returned a non-empty list, with discover-only mode off, and
\* after the availability check succeeded; in discover-only mode, when no
\* file is found, or when the interpreter is unavailable, no test file is
\* ever executed.
C27_ExecutionOnlyAfterChecks ==
    /\ (mpc = "run" \/ runs # <<>> \/ results # <<>> \/ report # <<>>) =>
          /\ file_paths # <<>>
          /\ ~discover_only
          /\ dana_available = <<TRUE>>
    /\ (discover_only \/ (mpc # "discover" /\ file_paths = <<>>) \/ dana_available = <<FALSE>>) =>
          /\ runs = <<>>
          /\ results = <<>>
          /\ report = <<>>

\* the report of a run of two discovered files has been generated
C27_Witness ==
    /\ report # <<>>
    /\ Len(runs) = 2
    /\ Len(file_paths) = 2
    /\ ~discover_only
    /\ dana_available = <<TRUE>>

\* C28: for every filename and every pattern _matches_glob_pattern agrees
\* with glob semantics, in which "*" stands for any string: a pattern
\* without "*" matches only the identical filename, and a pattern P*S
\* exactly the filenames P + x + S.
C28_AgreesWithGlob ==
    (matched # <<>>) => (matched[1] <=> GlobMatches(filename, pattern))

\* a walk of a root is going on: the outermost frame is the root's
WalkedRoot == stack[1].directory

\* the part of a path below the root being walked
BelowRoot(path) == SubSeq(path, Len(WalkedRoot) + 1, Len(path))

\* C29: walking a root directory terminates and respects max_depth and
\* the exclusions: with the root at depth 0, a file is returned from the
\* walk only if its directory has a depth of at most max_depth and
\* neither the file nor a directory between the root and it is excluded;
\* with recursive off only files directly in the root are returned.
C29_WalkTerminatesWithinDepth ==
    /\ (stack # <<>>) ~> (stack = <<>>)
    /\ [][stack # <<>> =>
             \A n \in (Len(discovered_files) + 1)..Len(discovered_files') :
                LET file == discovered_files'[n] IN
                /\ IsAtOrBelow(file, WalkedRoot)
                /\ Len(BelowRoot(file)) >= 1
                /\ Len(BelowRoot(file)) - 1 <= config.max_depth
                /\ \A m \in 1..Len(BelowRoot(file)) :
                      ~is_excluded(<<BelowRoot(file)[m]>>, config.exclude_patterns)
                /\ ~config.recursive => Len(BelowRoot(file)) = 1]_vars

\* a recursive walk of tests with max_depth 1 has returned the test file
\* of tests/sub and neither the one of tests/sub/deep nor one of an
\* excluded directory
C29_Witness ==
    /\ dpc = "walk"
    /\ stack = <<>>
    /\ paths = << <<"tests">> >>
    /\ config.recursive
    /\ config.max_depth = 1
    /\ discovered_files = << <<"tests", "test_a.na">>, <<"tests", "sub", "test_b.na">>,
                              <<"tests", "a_test.na">> >>

\* C30: parse_output never returns an assertion of kind result: every
\* returned assertion has kind assert, log or error, and whenever the
\* structured, text and error-text parsing produce nothing the output
\* holds no pass or fail indicator, so that the generic fallback has
\* nothing to report.
C30_NoResultKind ==
    (pc = "returned") =>
        /\ \A n \in 1..Len(ret.assertions) :
              ret.assertions[n].assertion_type \in {"assert", "log", "error"}
        /\ ret.assertions = <<>> => ~HasPassIndicator(output) /\ ~HasFailIndicator(output)

\* parse_output has returned nothing for two lines of text without log
\* call or indicator and an error text without error
C30_Witness ==
    /\ pc = "returned"
    /\ ret.assertions = <<>>
    /\ output = "Some initial text\nSome initial text"
    /\ error_output = ""

====
